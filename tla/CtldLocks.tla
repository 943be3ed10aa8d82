------------------------------ MODULE CtldLocks ------------------------------
(***************************************************************************)
(* The read/write locks of slurmctld (slurmctld/locks.c) and of the        *)
(* association manager (common/assoc_mgr.c): lock_slurmctld() takes up to  *)
(* six pthread rwlocks, assoc_mgr_lock() up to seven, one after the other  *)
(* in a fixed order, and the unlock functions release them in the reverse  *)
(* order.  A thread nests assoc_mgr_lock() inside lock_slurmctld() and     *)
(* never the other way round.  Each rwlock is the two words glibc keeps:   *)
(* how many readers there are, and whether there is a writer.              *)
(***************************************************************************)
EXTENDS Integers, FiniteSets

CONSTANTS Threads,        \* the threads of slurmctld
          CtldRequests,   \* the lock_levels of the callers of lock_slurmctld()
          AssocRequests,  \* the levels of the callers of assoc_mgr_lock()
          MaxCalls        \* calls of a lock function each thread makes

VARIABLES phase,          \* what a thread does in each layer
          thread_locks,   \* the levels it asked for (__thread thread_locks)
          got,            \* the locks it has taken and not yet released
          rw,             \* the rwlocks: slurmctld_locks[] and assoc_mgr_locks[]
          calls           \* the calls a thread has left

vars == <<phase, thread_locks, got, rw, calls>>

\* lock_level_t
NO_LOCK    == 0
READ_LOCK  == 1
WRITE_LOCK == 2
Level      == NO_LOCK .. WRITE_LOCK

\* lock_datatype_t: CONF, JOB, NODE, PART, FED, SELECT_NODE
SELECT_NODE_LOCK == 5
CtldLock == 0 .. SELECT_NODE_LOCK

\* assoc_mgr_lock_datatype_t: ASSOC, FILE, QOS, RES, TRES, USER, WCKEY
AssocLock == 6 .. 12

Locks == 0 .. 12
Layer == {"ctld", "assoc"}
LocksOf(layer)  == IF layer = "ctld" THEN CtldLock ELSE AssocLock
Requests(layer) == IF layer = "ctld" THEN CtldRequests ELSE AssocRequests
Phase == {"out", "locking", "in", "unlocking"}

\* Every caller asks for something, and whoever asks for the select_node lock
\* asks for another lock too: report_locks_set() does not look at that one.
ASSUME RequestAssumption ==
  /\ CtldRequests \subseteq [CtldLock -> Level]
  /\ AssocRequests \subseteq [AssocLock -> Level]
  /\ \A req \in CtldRequests : \E l \in CtldLock \ {SELECT_NODE_LOCK} : req[l] # NO_LOCK
  /\ \A req \in AssocRequests : \E l \in AssocLock : req[l] # NO_LOCK
ASSUME ThreadAssumption == IsFiniteSet(Threads) /\ MaxCalls \in Nat

Init ==
  /\ phase = [t \in Threads |-> [layer \in Layer |-> "out"]]
  /\ thread_locks = [t \in Threads |-> [l \in Locks |-> NO_LOCK]]
  /\ got = [t \in Threads |-> {}]
  /\ rw = [l \in Locks |-> [readers |-> 0, writer |-> FALSE]]
  /\ calls = [t \in Threads |-> MaxCalls]
-----------------------------------------------------------------------------
(* pthread_rwlock_rdlock(), _wrlock() and _unlock() with the default       *)
(* attributes: a reader does not wait for a waiting writer.                *)

CanTake(r, level) ==
  IF level = READ_LOCK THEN ~r.writer ELSE ~r.writer /\ r.readers = 0

Taken(r, level) ==
  IF level = READ_LOCK THEN [r EXCEPT !.readers = @ + 1] ELSE [r EXCEPT !.writer = TRUE]

Freed(r) ==
  IF r.writer THEN [r EXCEPT !.writer = FALSE] ELSE [r EXCEPT !.readers = @ - 1]
-----------------------------------------------------------------------------
\* The locks a thread still has to take in a layer
Wanted(t, layer) == {l \in LocksOf(layer) : thread_locks[t][l] # NO_LOCK /\ l \notin got[t]}

\* mutant: a lock function takes its locks in any order
NextLock_Unordered(t, layer, l) == l \in Wanted(t, layer)

\* The order of the lock functions, and that of the unlock functions
NextLock(t, layer, l) == l \in Wanted(t, layer) /\ \A m \in Wanted(t, layer) : l <= m

\* mutant: unlock releases locks that the argument does not name
NextUnlock_Unconditional(t, layer, l) == l \in LocksOf(layer)
NextUnlock(t, layer, l) ==
  l \in got[t] \cap LocksOf(layer) /\ \A m \in got[t] \cap LocksOf(layer) : m <= l

\* mutant: the configuration is only ever locked for reading
LevelFor_ConfRead(t, l) == IF l = 0 THEN READ_LOCK ELSE thread_locks[t][l]

\* rdlock or wrlock: the branch the lock functions take for one lock
LevelFor(t, l) == thread_locks[t][l]

\* mutant: lock_slurmctld() is called under assoc_mgr_lock()
MayLock_AnyNesting(t, layer) ==
  /\ phase[t][layer] = "out"
  /\ \A other \in Layer \ {layer} : phase[t][other] \in {"out", "in"}

\* When a thread may call the lock function of a layer: not while it is in that
\* layer (_store_locks()), and lock_slurmctld() not under assoc_mgr_lock().
MayLock(t, layer) ==
  /\ phase[t][layer] = "out"
  /\ IF layer = "ctld" THEN phase[t]["assoc"] = "out" ELSE phase[t]["ctld"] \in {"out", "in"}

\* The call of lock_slurmctld() or assoc_mgr_lock(): _store_locks()
LockCall(t, layer, req) ==
  /\ calls[t] > 0
  /\ MayLock(t, layer)
  /\ phase' = [phase EXCEPT ![t][layer] = "locking"]
  /\ thread_locks' = [thread_locks EXCEPT ![t] =
                        [l \in Locks |-> IF l \in LocksOf(layer) THEN req[l] ELSE @[l]]]
  /\ calls' = [calls EXCEPT ![t] = @ - 1]
  /\ UNCHANGED <<got, rw>>

\* One rdlock or wrlock of the call; it returns after the last one.
Acquire(t, layer, l) ==
  /\ phase[t][layer] = "locking"
  /\ NextLock(t, layer, l)
  /\ CanTake(rw[l], LevelFor(t, l))
  /\ rw' = [rw EXCEPT ![l] = Taken(@, LevelFor(t, l))]
  /\ got' = [got EXCEPT ![t] = @ \cup {l}]
  /\ phase' = IF Wanted(t, layer) = {l} THEN [phase EXCEPT ![t][layer] = "in"] ELSE phase
  /\ UNCHANGED <<thread_locks, calls>>

\* The call of unlock_slurmctld() or assoc_mgr_unlock(): _clear_locks()
\* forgets the levels before the first lock is released.
UnlockCall(t, layer) ==
  /\ phase[t][layer] = "in"
  /\ IF layer = "ctld" THEN phase[t]["assoc"] = "out" ELSE phase[t]["ctld"] \in {"out", "in"}
  /\ phase' = [phase EXCEPT ![t][layer] = "unlocking"]
  /\ thread_locks' = [thread_locks EXCEPT ![t] =
                        [l \in Locks |-> IF l \in LocksOf(layer) THEN NO_LOCK ELSE @[l]]]
  /\ UNCHANGED <<got, rw, calls>>

\* One rwlock_unlock of the call
Release(t, layer, l) ==
  /\ phase[t][layer] = "unlocking"
  /\ NextUnlock(t, layer, l)
  /\ rw' = [rw EXCEPT ![l] = Freed(@)]
  /\ got' = [got EXCEPT ![t] = @ \ {l}]
  /\ phase' = IF got[t] \cap LocksOf(layer) = {l}
              THEN [phase EXCEPT ![t][layer] = "out"] ELSE phase
  /\ UNCHANGED <<thread_locks, calls>>

\* What a thread inside a lock or unlock function, or about to leave its
\* critical section, does next
Continue(t) ==
  \E layer \in Layer :
    \/ \E l \in LocksOf(layer) : Acquire(t, layer, l) \/ Release(t, layer, l)
    \/ UnlockCall(t, layer)

Next ==
  \E t \in Threads : \/ \E layer \in Layer : \E req \in Requests(layer) : LockCall(t, layer, req)
                     \/ Continue(t)

Spec == Init /\ [][Next]_vars

\* Every thread runs: it finishes its critical section, and it takes a lock
\* that stays free for it.
FairSpec == Spec /\ \A t \in Threads : WF_vars(Continue(t))
-----------------------------------------------------------------------------
(* What the checks of the code see.                                        *)

\* verify_lock() and verify_assoc_lock()
verify_lock(t, l, level) == thread_locks[t][l] >= level

\* mutant: the test takes a read lock
report_locks_set_WritersOnly ==
  Cardinality({l \in CtldLock \ {SELECT_NODE_LOCK} : ~CanTake(rw[l], READ_LOCK)})

\* report_locks_set(): how many of the first five slurmctld locks are set
report_locks_set ==
  Cardinality({l \in CtldLock \ {SELECT_NODE_LOCK} : ~CanTake(rw[l], WRITE_LOCK)})
-----------------------------------------------------------------------------
(* Properties.                                                             *)

TypeOK ==
  /\ phase \in [Threads -> [Layer -> Phase]]
  /\ thread_locks \in [Threads -> [Locks -> Level]]
  /\ got \in [Threads -> SUBSET Locks]
  /\ rw \in [Locks -> [readers : Nat, writer : BOOLEAN]]
  /\ calls \in [Threads -> 0 .. MaxCalls]

Holders(l) == {t \in Threads : l \in got[t]}

\* The words of every rwlock agree with the threads that are between lock and
\* unlock: no release is lost and none is made twice, although the unlock
\* functions pick what to release from their argument and not from the lock.
LockWordsExact ==
  \A l \in Locks : /\ rw[l].writer => rw[l].readers = 0 /\ \E t \in Threads : Holders(l) = {t}
                   /\ ~rw[l].writer => rw[l].readers = Cardinality(Holders(l))

InSection(t, l) == \E layer \in Layer : l \in LocksOf(layer) /\ phase[t][layer] = "in"

\* While a thread is in a section where verify_lock(l, WRITE_LOCK) holds, no
\* other thread holds l: the accesses the xasserts guard cannot race.
WriteExclusive ==
  \A t, u \in Threads, l \in Locks :
    (t # u /\ InSection(t, l) /\ verify_lock(t, l, WRITE_LOCK)) => l \notin got[u]

\* A thread is blocked when the next lock it wants is not free for it.
Blocked(t) ==
  \E layer \in Layer, l \in Locks : /\ phase[t][layer] = "locking"
                                    /\ NextLock(t, layer, l)
                                    /\ ~CanTake(rw[l], LevelFor(t, l))
Busy(t) == \E layer \in Layer : phase[t][layer] # "out"

\* "use lock_slurmctld() and unlock_slurmctld() to get the ordering so as to
\* prevent deadlock": threads never wait for each other in a cycle.
NoDeadlock == (\E t \in Threads : Busy(t)) => \E t \in Threads : Busy(t) /\ ~Blocked(t)

\* report_locks_set(), which decides whether the state is saved at shutdown,
\* sees every thread that is in a section of lock_slurmctld().
LeftLocksReported ==
  (\E t \in Threads : phase[t]["ctld"] = "in") => report_locks_set > 0

\* The inductive invariant: in every layer a thread has taken a prefix of what
\* it asked for, in the order of the locks; it is inside one function at a
\* time; and the word of a lock it holds is of the level it asked for.
LayerOK(t, layer) ==
  LET mine == got[t] \cap LocksOf(layer)
  IN  /\ phase[t][layer] = "out" => mine = {}
      /\ phase[t][layer] = "locking" =>
           Wanted(t, layer) # {} /\ \A l \in Wanted(t, layer), m \in mine : m < l
      /\ phase[t][layer] = "in" => Wanted(t, layer) = {}
      /\ phase[t][layer] = "unlocking" => mine # {}
      /\ phase[t][layer] \in {"locking", "in"} =>
           /\ \E l \in LocksOf(layer) \ {SELECT_NODE_LOCK} : thread_locks[t][l] # NO_LOCK
           /\ \A l \in mine : /\ thread_locks[t][l] # NO_LOCK
                              /\ thread_locks[t][l] = WRITE_LOCK <=> rw[l].writer
ThreadOK(t) ==
  /\ phase[t]["ctld"] \in {"locking", "unlocking"} => phase[t]["assoc"] = "out"
  /\ \A layer \in Layer : LayerOK(t, layer)
IInv == TypeOK /\ LockWordsExact /\ \A t \in Threads : ThreadOK(t)

\* Every lock call returns once the other threads stop making new ones.
LockCallReturns ==
  \A t \in Threads, layer \in Layer : phase[t][layer] = "locking" ~> phase[t][layer] = "in"
=============================================================================
