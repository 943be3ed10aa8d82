----------------------------- MODULE MCCtldLocks -----------------------------
(* Requests of real callers, one per way they overlap.                     *)
EXTENDS CtldLocks, TLC

CONSTANTS t1, t2, t3

Ask(locks, f) == [l \in locks |-> IF l \in DOMAIN f THEN f[l] ELSE NO_LOCK]

\* {.conf = READ, .job = WRITE, .node = WRITE}: the handlers of JobNode
JobWrite == Ask(CtldLock, 0 :> READ_LOCK @@ 1 :> WRITE_LOCK @@ 2 :> WRITE_LOCK)
\* {.conf = READ, .node = READ, .select_node = WRITE}: node_health_check_lock
HealthCheck == Ask(CtldLock, 0 :> READ_LOCK @@ 2 :> READ_LOCK @@ 5 :> WRITE_LOCK)
\* config_write_lock, the first two of its five locks
Reconfig == Ask(CtldLock, 0 :> WRITE_LOCK @@ 1 :> WRITE_LOCK)
\* {.job = READ}
JobRead  == Ask(CtldLock, 1 :> READ_LOCK)
MCCtld   == {JobWrite, HealthCheck, Reconfig, JobRead}

\* {.assoc = WRITE, .qos = WRITE}
AssocWrite == Ask(AssocLock, 6 :> WRITE_LOCK @@ 8 :> WRITE_LOCK)
OneAssoc   == {AssocWrite}
=============================================================================
