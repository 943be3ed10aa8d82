--------------------------- MODULE CtldLocksProofs ---------------------------
(***************************************************************************)
(* The locks of slurmctld, for any number of threads and any requests: the *)
(* lock words are exact, a write section is exclusive, and threads never   *)
(* wait for each other in a cycle.                                         *)
(***************************************************************************)
EXTENDS CtldLocks, FiniteSetTheorems, TLAPS

LockRecord == [readers : Nat, writer : BOOLEAN]

LEMMA LayerFacts ==
  /\ LocksOf("ctld") = CtldLock /\ LocksOf("assoc") = AssocLock
  /\ \A layer \in Layer : LocksOf(layer) \subseteq Locks
  /\ \A l \in Locks : \E layer \in Layer : l \in LocksOf(layer)
  /\ \A l \in CtldLock, m \in AssocLock : l < m
  BY DEF LocksOf, CtldLock, AssocLock, Locks, Layer, SELECT_NODE_LOCK

\* A lock belongs to one layer.
LEMMA OneLayer ==
  ASSUME NEW a \in Layer, NEW b \in Layer, NEW l \in LocksOf(a), l \in LocksOf(b)
  PROVE  a = b
  BY DEF LocksOf, CtldLock, AssocLock, Layer, SELECT_NODE_LOCK

LEMMA HoldersFinite ==
  ASSUME NEW l \in Locks
  PROVE  IsFiniteSet(Holders(l)) /\ Cardinality(Holders(l)) \in Nat
  <1>1. Holders(l) \in SUBSET Threads
    BY DEF Holders
  <1>2. IsFiniteSet(Holders(l))
    BY <1>1, ThreadAssumption, FS_Subset
  <1> QED
    BY <1>2, FS_CardinalityType

\* A held lock is not free for a writer, and a lock with no reader and no
\* writer is held by nobody.
LEMMA HeldIsSet ==
  ASSUME TypeOK, LockWordsExact, NEW l \in Locks
  PROVE  /\ Holders(l) # {} <=> (rw[l].writer \/ rw[l].readers > 0)
         /\ rw[l].writer => \A t, u \in Holders(l) : t = u
  <1>1. rw[l] \in LockRecord
    BY DEF TypeOK, LockRecord
  <1>2. rw[l].readers \in Nat
    BY <1>1 DEF LockRecord
  <1>3. Cardinality(Holders(l)) = 0 <=> Holders(l) = {}
    BY HoldersFinite, FS_EmptySet
  <1> QED
    BY <1>2, <1>3, HoldersFinite DEF LockWordsExact

LEMMA RecordWriter ==
  ASSUME NEW r \in LockRecord, NEW b \in BOOLEAN
  PROVE  /\ [r EXCEPT !.writer = b] \in LockRecord
         /\ [r EXCEPT !.writer = b].readers = r.readers
         /\ [r EXCEPT !.writer = b].writer = b
  BY DEF LockRecord

\* Taking a lock
LEMMA TakeWords ==
  ASSUME TypeOK, LockWordsExact, NEW t \in Threads, NEW l \in Locks,
         NEW v \in {READ_LOCK, WRITE_LOCK}, l \notin got[t], CanTake(rw[l], v),
         rw' = [rw EXCEPT ![l] = Taken(@, v)],
         got' = [got EXCEPT ![t] = @ \cup {l}]
  PROVE  /\ rw' \in [Locks -> LockRecord]
         /\ LockWordsExact'
         /\ rw'[l].writer <=> v = WRITE_LOCK
         /\ \A u \in Threads, m \in Locks : m \in got[u] => (rw'[m].writer <=> rw[m].writer)
  <1>1. rw \in [Locks -> LockRecord] /\ rw[l] \in LockRecord
    BY DEF TypeOK, LockRecord
  <1>2. rw[l].readers \in Nat /\ rw[l].writer \in BOOLEAN
    BY <1>1 DEF LockRecord
  <1>3. ~rw[l].writer /\ (v = WRITE_LOCK => rw[l].readers = 0)
    BY DEF CanTake, READ_LOCK, WRITE_LOCK
  <1>4. rw'[l] = Taken(rw[l], v) /\ \A m \in Locks \ {l} : rw'[m] = rw[m]
    BY <1>1
  <1>5. /\ Taken(rw[l], v) \in LockRecord
        /\ Taken(rw[l], v).readers = rw[l].readers + (IF v = READ_LOCK THEN 1 ELSE 0)
        /\ Taken(rw[l], v).writer <=> v = WRITE_LOCK
    <2>1. CASE v = READ_LOCK
      <3>1. Taken(rw[l], v) = [rw[l] EXCEPT !.readers = @ + 1]
        BY <2>1 DEF Taken
      <3> QED
        BY <1>1, <1>2, <1>3, <2>1, <3>1 DEF LockRecord, READ_LOCK, WRITE_LOCK
    <2>2. CASE v = WRITE_LOCK
      <3> DEFINE b == TRUE
      <3>1. Taken(rw[l], v) = [rw[l] EXCEPT !.writer = b] /\ b \in BOOLEAN
        BY <2>2 DEF Taken, READ_LOCK, WRITE_LOCK
      <3>2. b = TRUE
        OBVIOUS
      <3> HIDE DEF b
      <3>3. /\ Taken(rw[l], v) \in LockRecord
            /\ Taken(rw[l], v).readers = rw[l].readers
            /\ Taken(rw[l], v).writer = b
        BY <1>1, <3>1, RecordWriter
      <3>4. Taken(rw[l], v).writer
        BY <3>2, <3>3, Zenon
      <3>5. Taken(rw[l], v).readers = rw[l].readers + (IF v = READ_LOCK THEN 1 ELSE 0)
        BY <1>2, <2>2, <3>3 DEF READ_LOCK, WRITE_LOCK
      <3> QED
        BY <2>2, <3>3, <3>4, <3>5, Zenon
    <2> QED
      BY <2>1, <2>2
  <1>6. rw' \in [Locks -> LockRecord]
    BY <1>1, <1>4, <1>5
  <1>7. /\ Holders(l)' = Holders(l) \cup {t}
        /\ t \notin Holders(l)
        /\ \A m \in Locks \ {l} : Holders(m)' = Holders(m)
    BY DEF Holders, TypeOK
  <1>8. Cardinality(Holders(l) \cup {t}) = Cardinality(Holders(l)) + 1
    BY <1>7, HoldersFinite, FS_AddElement
  <1>9. Cardinality(Holders(l)) = rw[l].readers
    BY <1>3 DEF LockWordsExact
  <1>10. v = WRITE_LOCK => Holders(l) = {}
    BY <1>3, <1>9, HoldersFinite, FS_EmptySet
  <1>11. LockWordsExact'
    <2>1. SUFFICES ASSUME NEW m \in Locks
                   PROVE  /\ rw'[m].writer => rw'[m].readers = 0 /\ \E u \in Threads : Holders(m)' = {u}
                          /\ ~rw'[m].writer => rw'[m].readers = Cardinality(Holders(m)')
      BY DEF LockWordsExact
    <2>2. CASE m # l
      BY <1>4, <1>7, <2>2 DEF LockWordsExact
    <2>3. CASE m = l /\ v = WRITE_LOCK
      BY <1>3, <1>4, <1>5, <1>7, <1>10, <2>3 DEF READ_LOCK, WRITE_LOCK
    <2>4. CASE m = l /\ v = READ_LOCK
      BY <1>4, <1>5, <1>7, <1>8, <1>9, <2>4 DEF READ_LOCK, WRITE_LOCK
    <2> QED
      BY <2>2, <2>3, <2>4
  <1>12. \A u \in Threads, m \in Locks : m \in got[u] => (rw'[m].writer <=> rw[m].writer)
    BY <1>3, <1>4, <1>5, <1>10 DEF Holders
  <1> QED
    BY <1>4, <1>5, <1>6, <1>11, <1>12

\* Releasing a lock
LEMMA FreeWords ==
  ASSUME TypeOK, LockWordsExact, NEW t \in Threads, NEW l \in Locks, l \in got[t],
         rw' = [rw EXCEPT ![l] = Freed(@)],
         got' = [got EXCEPT ![t] = @ \ {l}]
  PROVE  /\ rw' \in [Locks -> LockRecord]
         /\ LockWordsExact'
         /\ \A u \in Threads \ {t}, m \in Locks : m \in got[u] => (rw'[m].writer <=> rw[m].writer)
         /\ \A m \in Locks \ {l} : rw'[m] = rw[m]
  <1>1. rw \in [Locks -> LockRecord] /\ rw[l] \in LockRecord
    BY DEF TypeOK, LockRecord
  <1>2. rw[l].readers \in Nat /\ rw[l].writer \in BOOLEAN
    BY <1>1 DEF LockRecord
  <1>3. t \in Holders(l)
    BY DEF Holders
  <1>4. ~rw[l].writer => rw[l].readers > 0
    BY <1>3, HeldIsSet
  <1>5. rw'[l] = Freed(rw[l]) /\ \A m \in Locks \ {l} : rw'[m] = rw[m]
    BY <1>1
  <1>6. /\ Freed(rw[l]) \in LockRecord
        /\ Freed(rw[l]).readers = rw[l].readers - (IF rw[l].writer THEN 0 ELSE 1)
        /\ ~Freed(rw[l]).writer
    <2>1. CASE rw[l].writer
      <3> DEFINE b == FALSE
      <3>1. Freed(rw[l]) = [rw[l] EXCEPT !.writer = b] /\ b \in BOOLEAN
        BY <2>1 DEF Freed
      <3>2. b = FALSE
        OBVIOUS
      <3> HIDE DEF b
      <3>3. /\ Freed(rw[l]) \in LockRecord
            /\ Freed(rw[l]).readers = rw[l].readers
            /\ Freed(rw[l]).writer = b
        BY <1>1, <3>1, RecordWriter
      <3> QED
        BY <1>2, <2>1, <3>2, <3>3
    <2>2. CASE ~rw[l].writer
      <3>1. Freed(rw[l]) = [rw[l] EXCEPT !.readers = @ - 1]
        BY <2>2 DEF Freed
      <3>2. rw[l].readers - 1 \in Nat
        BY <1>2, <1>4, <2>2
      <3> QED
        BY <1>1, <1>2, <2>2, <3>1, <3>2 DEF LockRecord
    <2> QED
      BY <2>1, <2>2
  <1>7. rw' \in [Locks -> LockRecord]
    BY <1>1, <1>5, <1>6
  <1>8. /\ Holders(l)' = Holders(l) \ {t}
        /\ \A m \in Locks \ {l} : Holders(m)' = Holders(m)
    BY DEF Holders, TypeOK
  <1>9. Cardinality(Holders(l) \ {t}) = Cardinality(Holders(l)) - 1
    BY <1>3, HoldersFinite, FS_RemoveElement
  <1>10. rw[l].writer => Holders(l) = {t} /\ rw[l].readers = 0
    BY <1>3 DEF LockWordsExact
  <1>11. ~rw[l].writer => rw[l].readers = Cardinality(Holders(l))
    BY DEF LockWordsExact
  <1>12. rw[l].writer => Cardinality(Holders(l) \ {t}) = 0
    <2>1. Cardinality({t}) = 1
      BY FS_Singleton
    <2> QED
      BY <1>9, <1>10, <2>1
  <1>13. LockWordsExact'
    <2>1. SUFFICES ASSUME NEW m \in Locks
                   PROVE  /\ rw'[m].writer => rw'[m].readers = 0 /\ \E u \in Threads : Holders(m)' = {u}
                          /\ ~rw'[m].writer => rw'[m].readers = Cardinality(Holders(m)')
      BY DEF LockWordsExact
    <2>2. CASE m # l
      BY <1>5, <1>8, <2>2 DEF LockWordsExact
    <2>3. CASE m = l /\ rw[l].writer
      <3>1. rw'[l].readers = 0 /\ ~rw'[l].writer
        BY <1>2, <1>5, <1>6, <1>10, <2>3
      <3> QED
        BY <1>8, <1>12, <2>3, <3>1
    <2>4. CASE m = l /\ ~rw[l].writer
      BY <1>2, <1>5, <1>6, <1>8, <1>9, <1>11, <2>4
    <2> QED
      BY <2>2, <2>3, <2>4
  <1>14. \A u \in Threads \ {t}, m \in Locks : m \in got[u] => (rw'[m].writer <=> rw[m].writer)
    BY <1>5, <1>6, <1>10 DEF Holders
  <1> QED
    BY <1>5, <1>7, <1>13, <1>14

-----------------------------------------------------------------------------
(* The steps.                                                              *)

LEMMA InitOK == Init => IInv
  <1> SUFFICES ASSUME Init PROVE IInv
    OBVIOUS
  <1>1. /\ TypeOK
        /\ \A l \in Locks : rw[l].readers = 0 /\ ~rw[l].writer /\ Holders(l) = {}
    <2> DEFINE free == [readers |-> 0, writer |-> FALSE]
    <2>1. FALSE \in BOOLEAN /\ 0 \in Nat
      OBVIOUS
    <2>2. free \in LockRecord
      BY <2>1, Zenon DEF LockRecord
    <2>3. free.readers = 0 /\ ~free.writer
      OBVIOUS
    <2>4. rw = [l \in Locks |-> free]
      BY DEF Init
    <2> HIDE DEF free
    <2>5. rw \in [Locks -> LockRecord]
      BY <2>2, <2>4
    <2> QED
      BY <2>3, <2>4, <2>5, ThreadAssumption
      DEF Init, TypeOK, LockRecord, Holders, Phase, Level, NO_LOCK, WRITE_LOCK
  <1>2. LockWordsExact
    BY <1>1, FS_EmptySet DEF LockWordsExact
  <1>3. \A t \in Threads : ThreadOK(t)
    BY DEF Init, ThreadOK, LayerOK, Layer
  <1> QED
    BY <1>1, <1>2, <1>3 DEF IInv

\* A layer of a thread that a step leaves alone
LEMMA SameLayer ==
  ASSUME NEW t \in Threads, NEW layer \in Layer, LayerOK(t, layer),
         phase'[t][layer] = phase[t][layer],
         \A l \in LocksOf(layer) : /\ thread_locks'[t][l] = thread_locks[t][l]
                                   /\ l \in got'[t] <=> l \in got[t]
                                   /\ l \in got[t] => (rw'[l].writer <=> rw[l].writer)
  PROVE  LayerOK(t, layer)'
  <1>1. Wanted(t, layer)' = Wanted(t, layer)
    BY DEF Wanted
  <1>2. got'[t] \cap LocksOf(layer) = got[t] \cap LocksOf(layer)
    OBVIOUS
  <1> QED
    BY <1>1, <1>2 DEF LayerOK

LEMMA SameThread ==
  ASSUME NEW t \in Threads, ThreadOK(t), phase'[t] = phase[t],
         thread_locks'[t] = thread_locks[t], got'[t] = got[t],
         \A l \in Locks : l \in got[t] => (rw'[l].writer <=> rw[l].writer)
  PROVE  ThreadOK(t)'
  <1>1. \A layer \in Layer : LayerOK(t, layer)'
    BY SameLayer, LayerFacts DEF ThreadOK
  <1> QED
    BY <1>1 DEF ThreadOK

LEMMA LockCallOK ==
  ASSUME IInv, NEW t \in Threads, NEW layer \in Layer, NEW req \in Requests(layer),
         LockCall(t, layer, req)
  PROVE  IInv'
  <1>1. /\ req \in [LocksOf(layer) -> Level]
        /\ \E l \in LocksOf(layer) \ {SELECT_NODE_LOCK} : req[l] # NO_LOCK
    BY RequestAssumption DEF Requests, LocksOf, Layer, AssocLock, SELECT_NODE_LOCK
  <1>2. TypeOK'
    <2>1. phase' \in [Threads -> [Layer -> Phase]]
      BY DEF IInv, TypeOK, LockCall, Phase
    <2>2. thread_locks' \in [Threads -> [Locks -> Level]]
      <3> DEFINE f == [l \in Locks |-> IF l \in LocksOf(layer) THEN req[l] ELSE thread_locks[t][l]]
      <3>1. f \in [Locks -> Level]
        BY <1>1 DEF IInv, TypeOK
      <3>2. thread_locks' = [thread_locks EXCEPT ![t] = f]
        BY DEF LockCall
      <3> HIDE DEF f
      <3> QED
        BY <3>1, <3>2 DEF IInv, TypeOK
    <2>3. calls' \in [Threads -> 0 .. MaxCalls]
      BY ThreadAssumption DEF IInv, TypeOK, LockCall
    <2> QED
      BY <2>1, <2>2, <2>3 DEF IInv, TypeOK, LockCall
  <1>3. LockWordsExact'
    BY SMTT(30) DEF IInv, LockWordsExact, Holders, LockCall
  <1>4. \A u \in Threads \ {t} : ThreadOK(u)'
    BY SameThread DEF IInv, TypeOK, LockCall
  <1>5. /\ phase'[t][layer] = "locking" /\ \A b \in Layer \ {layer} : phase'[t][b] = phase[t][b]
        /\ \A l \in LocksOf(layer) : thread_locks'[t][l] = req[l]
        /\ \A l \in Locks \ LocksOf(layer) : thread_locks'[t][l] = thread_locks[t][l]
        /\ got' = got /\ rw' = rw
    BY LayerFacts DEF IInv, TypeOK, LockCall
  <1>6. LayerOK(t, layer)'
    <2>1. got[t] \cap LocksOf(layer) = {}
      BY DEF IInv, ThreadOK, LayerOK, LockCall, MayLock
    <2>2. Wanted(t, layer)' # {}
      BY <1>1, <1>5, <2>1 DEF Wanted
    <2> QED
      BY <1>1, <1>5, <2>1, <2>2 DEF LayerOK
  <1>7. \A b \in Layer \ {layer} : LayerOK(t, b)'
    BY <1>5, SameLayer, LayerFacts, OneLayer DEF IInv, ThreadOK
  <1>8. ThreadOK(t)'
    BY <1>5, <1>6, <1>7 DEF ThreadOK, IInv, Layer, LockCall, MayLock
  <1> QED
    BY <1>2, <1>3, <1>4, <1>8 DEF IInv

LEMMA AcquireOK ==
  ASSUME IInv, NEW t \in Threads, NEW layer \in Layer, NEW l \in Locks,
         Acquire(t, layer, l)
  PROVE  IInv'
  <1> DEFINE v == thread_locks[t][l]
  <1>1. /\ v \in {READ_LOCK, WRITE_LOCK} /\ l \notin got[t] /\ l \in LocksOf(layer)
        /\ l \in Wanted(t, layer) /\ \A m \in Wanted(t, layer) : l <= m
        /\ CanTake(rw[l], v) /\ rw' = [rw EXCEPT ![l] = Taken(@, v)]
        /\ got' = [got EXCEPT ![t] = @ \cup {l}]
        /\ thread_locks' = thread_locks /\ calls' = calls
    BY DEF Acquire, NextLock, LevelFor, Wanted, IInv, TypeOK, Level, NO_LOCK, READ_LOCK, WRITE_LOCK
  <1>2. /\ rw' \in [Locks -> LockRecord]
        /\ LockWordsExact'
        /\ rw'[l].writer <=> v = WRITE_LOCK
        /\ \A u \in Threads, m \in Locks : m \in got[u] => (rw'[m].writer <=> rw[m].writer)
    <2> HIDE DEF v
    <2> QED
      BY <1>1, TakeWords DEF IInv
  <1>3. /\ phase' \in [Threads -> [Layer -> Phase]]
        /\ phase'[t][layer] = IF Wanted(t, layer) = {l} THEN "in" ELSE "locking"
        /\ \A b \in Layer \ {layer} : phase'[t][b] = phase[t][b]
        /\ \A u \in Threads \ {t} : phase'[u] = phase[u]
    BY DEF Acquire, IInv, TypeOK, Phase
  <1>4. /\ got' \in [Threads -> SUBSET Locks] /\ got'[t] = got[t] \cup {l}
        /\ \A u \in Threads \ {t} : got'[u] = got[u]
    BY <1>1 DEF IInv, TypeOK
  <1>5. TypeOK'
    BY <1>1, <1>2, <1>3, <1>4 DEF IInv, TypeOK, LockRecord
  <1>6. \A u \in Threads \ {t} : ThreadOK(u)'
    BY <1>1, <1>2, <1>3, <1>4, SameThread DEF IInv
  <1>7. LayerOK(t, layer)'
    <2>1. Wanted(t, layer)' = Wanted(t, layer) \ {l}
      BY <1>1, <1>4 DEF Wanted
    <2>2. got'[t] \cap LocksOf(layer) = (got[t] \cap LocksOf(layer)) \cup {l}
      BY <1>1, <1>4
    <2>3. \A k \in Wanted(t, layer)', m \in got'[t] \cap LocksOf(layer) : m < k
      <3>1. \A k \in Wanted(t, layer), m \in got[t] \cap LocksOf(layer) : m < k
        BY DEF IInv, ThreadOK, LayerOK, Acquire
      <3>2. Wanted(t, layer) \subseteq Int /\ l \in Int
        BY LayerFacts DEF Wanted, Locks
      <3> QED
        BY <1>1, <2>1, <2>2, <3>1, <3>2
    <2>4. \A m \in got'[t] \cap LocksOf(layer) :
            thread_locks[t][m] # NO_LOCK /\ (thread_locks[t][m] = WRITE_LOCK <=> rw'[m].writer)
      <3>1. \A m \in got[t] \cap LocksOf(layer) :
              thread_locks[t][m] # NO_LOCK /\ (thread_locks[t][m] = WRITE_LOCK <=> rw[m].writer)
        BY DEF IInv, ThreadOK, LayerOK, Acquire
      <3>2. v # NO_LOCK
        BY <1>1 DEF NO_LOCK, READ_LOCK, WRITE_LOCK
      <3> QED
        BY <1>2, <2>2, <3>1, <3>2, LayerFacts
    <2>5. \E k \in LocksOf(layer) \ {SELECT_NODE_LOCK} : thread_locks[t][k] # NO_LOCK
      BY DEF IInv, ThreadOK, LayerOK, Acquire
    <2>6. (Wanted(t, layer)' = {} <=> phase'[t][layer] = "in") /\ phase'[t][layer] \in {"in", "locking"}
      BY <1>1, <1>3, <2>1
    <2> QED
      BY <1>1, <2>3, <2>4, <2>5, <2>6 DEF LayerOK
  <1>8. \A b \in Layer \ {layer} : LayerOK(t, b)'
    <2>1. \A b \in Layer \ {layer} : l \notin LocksOf(b)
      BY <1>1, OneLayer
    <2> QED
      BY <1>1, <1>2, <1>3, <1>4, <2>1, SameLayer, LayerFacts DEF IInv, ThreadOK
  <1>9. ThreadOK(t)'
    BY <1>3, <1>7, <1>8 DEF ThreadOK, IInv, Layer, Acquire
  <1> QED
    BY <1>2, <1>5, <1>6, <1>9 DEF IInv

LEMMA UnlockCallOK ==
  ASSUME IInv, NEW t \in Threads, NEW layer \in Layer, UnlockCall(t, layer)
  PROVE  IInv'
  <1>1. TypeOK'
    BY LayerFacts DEF IInv, TypeOK, UnlockCall, Phase, Level, NO_LOCK, WRITE_LOCK
  <1>2. LockWordsExact'
    BY DEF IInv, LockWordsExact, Holders, UnlockCall
  <1>3. \A u \in Threads \ {t} : ThreadOK(u)'
    BY SameThread DEF IInv, TypeOK, UnlockCall
  <1>4. /\ phase'[t][layer] = "unlocking" /\ \A b \in Layer \ {layer} : phase'[t][b] = phase[t][b]
        /\ \A l \in Locks \ LocksOf(layer) : thread_locks'[t][l] = thread_locks[t][l]
        /\ got' = got /\ rw' = rw
    BY LayerFacts DEF IInv, TypeOK, UnlockCall
  <1>5. LayerOK(t, layer)'
    <2>1. got[t] \cap LocksOf(layer) # {}
      BY DEF IInv, ThreadOK, LayerOK, UnlockCall, Wanted
    <2> QED
      BY <1>4, <2>1 DEF LayerOK
  <1>6. \A b \in Layer \ {layer} : LayerOK(t, b)'
    BY <1>4, SameLayer, LayerFacts, OneLayer DEF IInv, ThreadOK
  <1>7. ThreadOK(t)'
    BY <1>4, <1>5, <1>6 DEF ThreadOK, IInv, Layer, UnlockCall
  <1> QED
    BY <1>1, <1>2, <1>3, <1>7 DEF IInv

LEMMA ReleaseOK ==
  ASSUME IInv, NEW t \in Threads, NEW layer \in Layer, NEW l \in Locks,
         Release(t, layer, l)
  PROVE  IInv'
  <1>1. /\ l \in got[t] /\ l \in LocksOf(layer)
        /\ rw' = [rw EXCEPT ![l] = Freed(@)]
        /\ got' = [got EXCEPT ![t] = @ \ {l}]
        /\ thread_locks' = thread_locks /\ calls' = calls
    BY DEF Release, NextUnlock
  <1>2. /\ rw' \in [Locks -> LockRecord]
        /\ LockWordsExact'
        /\ \A u \in Threads \ {t}, m \in Locks : m \in got[u] => (rw'[m].writer <=> rw[m].writer)
        /\ \A m \in Locks \ {l} : rw'[m] = rw[m]
    BY <1>1, FreeWords DEF IInv
  <1>3. /\ phase' \in [Threads -> [Layer -> Phase]]
        /\ phase'[t][layer] = IF got[t] \cap LocksOf(layer) = {l} THEN "out" ELSE "unlocking"
        /\ \A b \in Layer \ {layer} : phase'[t][b] = phase[t][b]
        /\ \A u \in Threads \ {t} : phase'[u] = phase[u]
    BY DEF Release, IInv, TypeOK, Phase
  <1>4. /\ got' \in [Threads -> SUBSET Locks] /\ got'[t] = got[t] \ {l}
        /\ \A u \in Threads \ {t} : got'[u] = got[u]
    BY <1>1 DEF IInv, TypeOK
  <1>5. TypeOK'
    BY <1>1, <1>2, <1>3, <1>4 DEF IInv, TypeOK, LockRecord
  <1>6. \A u \in Threads \ {t} : ThreadOK(u)'
    BY <1>1, <1>2, <1>3, <1>4, SameThread DEF IInv
  <1>7. LayerOK(t, layer)'
    BY <1>1, <1>3, <1>4 DEF LayerOK
  <1>8. \A b \in Layer \ {layer} : LayerOK(t, b)'
    <2>1. \A b \in Layer \ {layer} : l \notin LocksOf(b)
      BY <1>1, OneLayer
    <2> QED
      BY <1>1, <1>2, <1>3, <1>4, <2>1, SameLayer, LayerFacts DEF IInv, ThreadOK
  <1>9. ThreadOK(t)'
    BY <1>3, <1>7, <1>8 DEF ThreadOK, IInv, Layer, Release
  <1> QED
    BY <1>2, <1>5, <1>6, <1>9 DEF IInv

LEMMA NextOK ==
  ASSUME IInv, [Next]_vars
  PROVE  IInv'
  <1>1. CASE Next
    <2>1. PICK t \in Threads :
            \/ \E layer \in Layer : \E req \in Requests(layer) : LockCall(t, layer, req)
            \/ Continue(t)
      BY <1>1 DEF Next
    <2>2. CASE \E layer \in Layer : \E req \in Requests(layer) : LockCall(t, layer, req)
      BY <2>2, LockCallOK
    <2>3. CASE Continue(t)
      <3>1. \A layer \in Layer : \A l \in LocksOf(layer) : l \in Locks
        BY LayerFacts
      <3> QED
        BY <2>3, <3>1, AcquireOK, ReleaseOK, UnlockCallOK DEF Continue
    <2> QED
      BY <2>1, <2>2, <2>3
  <1>2. CASE UNCHANGED vars
    <2>1. phase' = phase /\ thread_locks' = thread_locks /\ got' = got /\ rw' = rw /\ calls' = calls
      BY <1>2 DEF vars
    <2>2. TypeOK'
      BY <2>1, Zenon DEF IInv, TypeOK
    <2>3. LockWordsExact'
      BY <2>1, Zenon DEF IInv, LockWordsExact, Holders
    <2>4. \A t \in Threads : ThreadOK(t)'
      BY <2>1, SameThread DEF IInv
    <2> QED
      BY <2>2, <2>3, <2>4 DEF IInv
  <1> QED
    BY <1>1, <1>2

LEMMA Invariance == Spec => []IInv
  BY InitOK, NextOK, PTL DEF Spec
-----------------------------------------------------------------------------
(* What the invariant gives.                                               *)

\* The lock words agree with the threads between lock and unlock.
THEOREM LockWordsAreExact == Spec => []LockWordsExact
  <1>1. IInv => LockWordsExact
    BY DEF IInv
  <1> QED
    BY <1>1, Invariance, PTL

\* Where verify_lock() grants write access nobody else holds the lock: this is
\* what makes the handlers of JobNode atomic.
THEOREM WriteSectionsExclusive == Spec => []WriteExclusive
  <1>1. IInv => WriteExclusive
    <2> SUFFICES ASSUME IInv, NEW t \in Threads, NEW u \in Threads, NEW l \in Locks,
                        t # u, InSection(t, l), verify_lock(t, l, WRITE_LOCK), l \in got[u]
                 PROVE  FALSE
      BY DEF WriteExclusive
    <2>1. PICK layer \in Layer : l \in LocksOf(layer) /\ phase[t][layer] = "in"
      BY DEF InSection
    <2>2. thread_locks[t][l] = WRITE_LOCK
      BY DEF verify_lock, IInv, TypeOK, Level, NO_LOCK, WRITE_LOCK
    <2>3. l \in got[t]
      BY <2>1, <2>2 DEF IInv, ThreadOK, LayerOK, Wanted, NO_LOCK, WRITE_LOCK
    <2>4. rw[l].writer
      BY <2>1, <2>2, <2>3 DEF IInv, ThreadOK, LayerOK
    <2> QED
      BY <2>3, <2>4, HeldIsSet DEF Holders, IInv
  <1> QED
    BY <1>1, Invariance, PTL

\* A nonempty set of locks has a last one in the order.
LEMMA LastLock ==
  ASSUME NEW S \in SUBSET Locks, S # {}
  PROVE  \E l \in S : \A m \in S : m <= l
  <1> SUFFICES ASSUME \A l \in S : \E m \in S : m > l
               PROVE  FALSE
    BY DEF Locks
  <1>1. S \subseteq Int /\ \A l \in S : 0 <= l /\ l <= 12
    BY DEF Locks
  <1>2. \A l \in S : l < 9
    BY <1>1
  <1>3. \A l \in S : l < 6
    BY <1>1, <1>2
  <1>4. \A l \in S : l < 3
    BY <1>1, <1>3
  <1>5. \A l \in S : l < 0
    BY <1>1, <1>4
  <1>6. PICK l \in S : TRUE
    BY Zenon
  <1> QED
    BY <1>1, <1>5, <1>6

\* "to get the ordering so as to prevent deadlock": of the locks threads wait
\* for, the holder of the last one waits for none.
THEOREM LocksNeverDeadlock == Spec => []NoDeadlock
  <1>1. IInv => NoDeadlock
    <2> SUFFICES ASSUME IInv, NEW t0 \in Threads, Busy(t0),
                        \A t \in Threads : Busy(t) => Blocked(t)
                 PROVE  FALSE
      BY DEF NoDeadlock
    <2> DEFINE Waits(t, layer, l) == /\ phase[t][layer] = "locking"
                                     /\ NextLock(t, layer, l)
                                     /\ ~CanTake(rw[l], LevelFor(t, l))
               S == {l \in Locks : \E t \in Threads, layer \in Layer : Waits(t, layer, l)}
    <2>1. S # {}
      BY DEF Blocked
    <2>2. PICK l \in S : \A m \in S : m <= l
      BY <2>1, LastLock
    <2>3. PICK t \in Threads, layer \in Layer : Waits(t, layer, l)
      BY <2>2
    <2>4. Holders(l) # {}
      BY <2>3, HeldIsSet DEF CanTake, IInv, TypeOK
    <2>5. PICK u \in Threads : l \in got[u]
      BY <2>4 DEF Holders
    <2>6. PICK a \in Layer : l \in LocksOf(a)
      BY LayerFacts
    <2>7. Busy(u)
      BY <2>5, <2>6 DEF Busy, IInv, ThreadOK, LayerOK
    <2>8. PICK b \in Layer, k \in Locks : Waits(u, b, k)
      BY <2>7 DEF Blocked
    <2>9. k <= l /\ k \in LocksOf(b) /\ k \in Int /\ l \in Int
      BY SMTT(30), <2>2, <2>8 DEF NextLock, Wanted, Locks
    <2>10. CASE a = b
      BY SMTT(30), <2>5, <2>6, <2>8, <2>9, <2>10 DEF IInv, ThreadOK, LayerOK, NextLock
    <2>11. CASE a # b
      <3>1. CASE b = "ctld"
        BY SMTT(30), <2>5, <2>6, <2>8, <2>11, <3>1 DEF IInv, ThreadOK, LayerOK, Layer
      <3>2. CASE b = "assoc"
        BY <2>6, <2>9, <2>11, <3>2, LayerFacts DEF Layer
      <3> QED
        BY SMTT(30), <3>1, <3>2 DEF Layer
    <2> QED
      BY <2>10, <2>11
  <1> QED
    BY <1>1, Invariance, PTL

\* report_locks_set() sees every section of lock_slurmctld().
THEOREM SectionsReported == Spec => []LeftLocksReported
  <1>1. IInv => LeftLocksReported
    <2> DEFINE set == {l \in CtldLock \ {SELECT_NODE_LOCK} : ~CanTake(rw[l], WRITE_LOCK)}
    <2> SUFFICES ASSUME IInv, NEW t \in Threads, phase[t]["ctld"] = "in"
                 PROVE  Cardinality(set) > 0
      BY DEF LeftLocksReported, report_locks_set
    <2>1. PICK l \in CtldLock \ {SELECT_NODE_LOCK} : thread_locks[t][l] # NO_LOCK
      BY SMTT(30), LayerFacts DEF IInv, ThreadOK, LayerOK, Layer
    <2>2. l \in got[t]
      BY <2>1, LayerFacts DEF IInv, ThreadOK, LayerOK, Wanted, Layer
    <2>3. l \in Locks
      BY <2>1 DEF Locks, CtldLock, SELECT_NODE_LOCK
    <2>4. l \in set
      BY <2>1, <2>2, <2>3, HeldIsSet DEF Holders, IInv, CanTake, TypeOK, READ_LOCK, WRITE_LOCK
    <2>5. set \in SUBSET CtldLock /\ IsFiniteSet(CtldLock)
      <3>1. 0 \in Int /\ SELECT_NODE_LOCK \in Int
        BY DEF SELECT_NODE_LOCK
      <3>2. IsFiniteSet(0 .. SELECT_NODE_LOCK)
        BY <3>1, FS_Interval
      <3> QED
        BY <3>2 DEF CtldLock
    <2>6. IsFiniteSet(set)
      BY <2>5, FS_Subset
    <2> HIDE DEF set
    <2> QED
      BY <2>4, <2>6, FS_EmptySet, FS_CardinalityType
  <1> QED
    BY <1>1, Invariance, PTL
=============================================================================
