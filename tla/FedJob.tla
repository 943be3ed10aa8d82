------------------------------- MODULE FedJob -------------------------------
(***************************************************************************)
(* The life of one federated job: src/slurmctld/fed_mgr.c, with the parts  *)
(* of job_scheduler.c, job_mgr.c and proc_req.c that call it.              *)
(*                                                                         *)
(* The job is submitted to its origin cluster, which sends a copy to every *)
(* sibling.  Each cluster schedules its copy on its own; before it         *)
(* allocates nodes it takes the job's cluster lock, which the origin       *)
(* keeps in its fed_job_info, or, when the connection to the origin is     *)
(* down, from all the other siblings.  The winner tells the origin, which  *)
(* revokes the other copies and keeps a REVOKED record as the tracker of   *)
(* the running job.  Clusters that lost touch reconcile by a job sync when *)
(* the connection is made again.                                           *)
(*                                                                         *)
(* Data kept: per cluster the state of its copy, fed_details->cluster_lock *)
(* (recLock), fed_job_info->cluster_lock (infoLock); the origin's          *)
(* siblings_active.  All clusters are viable siblings.  net[k][l] is what  *)
(* k has queued for l and l has not yet handled: the agent's list of k and *)
(* the update list of l in one.                                            *)
(***************************************************************************)
EXTENDS Integers, Sequences, FiniteSets, FiniteSetsExt

CONSTANTS
  N,           \* number of clusters in the federation; ids are 1 .. N
  Origin,      \* the cluster the job is submitted to
  Cases        \* bounds: down, the siblings that are down throughout; stop,
               \* the clusters whose slurmctld may be stopped once; ends, how
               \* a running job may end by itself; refusals and kills,
               \* how many submissions are refused and scancel requests
               \* made; dbd, slurmdbd is connected (_slurmdbd_conn_active)

ASSUME FedAssumption ==
  /\ N \in Nat /\ Origin \in 1 .. N
  /\ Cases \subseteq [down : SUBSET ((1 .. N) \ {Origin}), stop : SUBSET (1 .. N),
                      ends : SUBSET {"COMPLETE", "FAILED"},
                      refusals : Nat, kills : Nat, dbd : BOOLEAN]
  /\ \A c \in Cases : c.stop \cap c.down = {}

Clusters == 1 .. N
NoLock == 0          \* cluster_lock of a job nobody has locked
NoInfo == -1         \* the cluster has no fed_job_info for the job

VARIABLES
  job,        \* state of each cluster's copy; NONE: no job record
  result,     \* base state of a copy that is COMPLETING or DONE
  recLock,    \* job_ptr->fed_details->cluster_lock
  infoLock,   \* job_info->cluster_lock
  active,     \* siblings_active of the origin (record and info agree)
  net,        \* net[k][l]: messages of k that l has not handled
  conn,       \* conn[k][l]: fed.send of k to l
  fini,       \* <<k, l>>: k's receive thread for l ended, callback pending
  recvd,      \* <<k, l>>: k's fed.sync_recvd for l
  sent,       \* <<k, l>>: k's fed.sync_sent for l
  up,         \* the clusters whose slurmctld runs
  case,       \* the case, with what is left of its bounds
  sched,      \* the scheduler of each cluster, inside one attempt
  submitted,  \* the job has been submitted
  around      \* history: some sibling locked the job without the origin

jobVars == <<job, result, recLock, infoLock, active>>
linkVars == <<conn, fini, recvd, sent>>
ctlVars == <<submitted, up, case, around>>
vars == <<jobVars, net, linkVars, ctlVars, sched>>

Idle == [pc |-> "idle", todo |-> {}, got |-> {}]

JobStates == {"NONE", "PENDING", "REVOKED", "RUNNING", "COMPLETING", "DONE"}
Results == {"COMPLETE", "FAILED", "CANCELLED"}
Msg(t) == [t |-> t]
Messages == [t : {"SUBMIT", "SUBMIT_RESP", "COMPLETE", "START", "CANCEL",
                  "CANCEL_NO_SIBS", "SEND_SYNC"}]
            \cup [t : {"SYNC"}, job : JobStates \cup {"OLD"}, result : Results]

TypeOK ==
  /\ job \in [Clusters -> JobStates]
  /\ result \in [Clusters -> Results]
  /\ recLock \in [Clusters -> Clusters \cup {NoLock}]
  /\ infoLock \in [Clusters -> Clusters \cup {NoLock, NoInfo}]
  /\ active \subseteq Clusters
  /\ net \in [Clusters -> [Clusters -> Seq(Messages)]]
  /\ conn \in [Clusters -> [Clusters -> {"NULL", "CLOSED", "OPEN", "DEAD"}]]
  /\ fini \subseteq Clusters \X Clusters
  /\ recvd \subseteq Clusters \X Clusters
  /\ sent \subseteq Clusters \X Clusters
  /\ up \subseteq Clusters
  /\ sched \in [Clusters -> [pc : {"idle", "locking", "release", "granted"},
                             todo : SUBSET Clusters, got : SUBSET Clusters]]
  /\ \E c \in Cases : /\ case.refusals \in 0 .. c.refusals /\ case.kills \in 0 .. c.kills
                       /\ case.stop \subseteq c.stop
                       /\ case.down = c.down /\ case.ends = c.ends /\ case.dbd = c.dbd
  /\ submitted \in BOOLEAN /\ around \in BOOLEAN

Others(k) == Clusters \ {k}

\* A federation whose clusters are connected and synced but for the ones that
\* are down; the job is not submitted yet.
Init ==
  /\ case \in Cases
  /\ up = Clusters \ case.down
  /\ job = [k \in Clusters |-> "NONE"]
  /\ result = [k \in Clusters |-> "COMPLETE"]
  /\ recLock = [k \in Clusters |-> NoLock]
  /\ infoLock = [k \in Clusters |-> NoInfo]
  /\ active = {}
  /\ net = [k \in Clusters |-> [l \in Clusters |-> <<>>]]
  /\ conn = [k \in Clusters |-> [l \in Clusters |->
               IF k = l \/ ~({k, l} \subseteq up) THEN "NULL" ELSE "OPEN"]]
  /\ fini = {}
  /\ recvd = {p \in Clusters \X Clusters : conn[p[1]][p[2]] = "OPEN"}
  /\ sent = recvd
  /\ sched = [k \in Clusters |-> Idle]
  /\ submitted = FALSE /\ around = FALSE

-----------------------------------------------------------------------------
(* Messages and connections *)

\* fed.send and its conn are both set.  A connection whose peer has stopped
\* (DEAD) looks open until it is used or the callback runs.
HasConn(k, l) == conn[k][l] \in {"OPEN", "DEAD"}

\* No scheduler step of k holds the job and federation locks.
Free(k) == k \in up /\ sched[k].pc = "idle"

Put(n, k, S, m) ==
  [n EXCEPT ![k] = [l \in Clusters |-> IF l \in S THEN Append(@[l], m) ELSE @[l]]]

\* _persist_fed_job_revoke sends nothing where there is no open connection.
RevokeSiblingJobs(n, k, S) ==
  Put(n, k, {l \in S \ {k} : HasConn(k, l)}, Msg("COMPLETE"))

\* A snapshot taken before k made its job record (submit_time >= sync_time)
\* says nothing about the job.
Outdated(n, k) ==
  [s \in Clusters |-> [n[s] EXCEPT ![k] =
     IF @ = <<>> THEN @ ELSE [i \in DOMAIN @ |->
       IF @[i].t = "SYNC" THEN [@[i] EXCEPT !.job = "OLD"] ELSE @[i]]]]

\* k can exchange messages with l, opening the connection if need be.
Reachable(k, l) == l \in up /\ conn[k][l] # "DEAD" /\ <<k, l>> \notin fini

\* The connection after an RPC from k to l, or after an attempt to open it.
SendRecv(k, l) == [conn EXCEPT ![k][l] = IF Reachable(k, l) THEN "OPEN" ELSE "CLOSED"]

\* A peer that accepts a new connection first queues a job sync.
Greeted(n, k, l) ==
  IF Reachable(k, l) /\ conn[k][l] # "OPEN"
  THEN [n EXCEPT ![k][l] = <<Msg("SEND_SYNC")>> \o @] ELSE n

\* _open_persist_sends after a federation update, which takes the federation
\* write lock, or _check_send by the agent, which has something to send.
OpenSend(k, l) ==
  /\ k # l /\ k \in up
  /\ Free(k) \/ net[k][l] # <<>>
  /\ conn[k][l] = "NULL" \/ (conn[k][l] = "CLOSED" /\ Reachable(k, l))
  /\ conn' = SendRecv(k, l)
  /\ net' = Greeted(net, k, l)
  /\ UNCHANGED <<jobVars, fini, recvd, sent, ctlVars, sched>>

\* The agent finds the connection broken; the messages stay queued.
AgentFails(k, l) ==
  /\ k \in up /\ net[k][l] # <<>> /\ conn[k][l] = "DEAD"
  /\ conn' = SendRecv(k, l)
  /\ UNCHANGED <<jobVars, net, fini, recvd, sent, ctlVars, sched>>

\* _persist_callback_fini: it takes the federation write lock.
CallbackFini(k, l) ==
  /\ <<k, l>> \in fini /\ Free(k)
  /\ fini' = fini \ {<<k, l>>}
  /\ conn' = [conn EXCEPT ![k][l] = "NULL"]
  /\ recvd' = recvd \ {<<k, l>>}
  /\ sent' = sent \ {<<k, l>>}
  /\ UNCHANGED <<jobVars, net, ctlVars, sched>>

\* An orderly stop of slurmctld k.  Its job records and fed_job_info are
\* saved, its queues are not: what it had for others, and what it had taken
\* over from them and not handled.  (What others took over from it counts as
\* handled.)
Stop(k) ==
  /\ Free(k) /\ k \in case.stop
  /\ case' = [case EXCEPT !.stop = @ \ {k}]
  /\ up' = up \ {k}
  /\ \E taken \in SUBSET Others(k) :
       net' = [j \in Clusters |-> [l \in Clusters |->
                 IF j = k \/ (l = k /\ j \in taken) THEN <<>> ELSE net[j][l]]]
  /\ fini' = {p \in fini : p[1] # k} \cup {<<l, k>> : l \in {i \in up \ {k} : conn[k][i] = "OPEN"}}
  /\ conn' = [l \in Clusters |-> [m \in Clusters |->
                CASE l = k -> "NULL"
                  [] l # k /\ m = k /\ conn[l][k] = "OPEN" -> "DEAD"
                  [] OTHER -> conn[l][m]]]
  /\ recvd' = {p \in recvd : p[1] # k}
  /\ sent' = {p \in sent : p[1] # k}
  /\ UNCHANGED <<jobVars, submitted, around, sched>>

\* fed_mgr_init: the records are loaded and a connection is opened to every
\* sibling that is up, before anything else runs.
Boot(k) ==
  /\ k \in Clusters \ (up \cup case.down)
  /\ up' = up \cup {k}
  /\ conn' = [conn EXCEPT ![k] = [l \in Clusters |->
                CASE l = k -> "NULL" [] l # k /\ l \in up -> "OPEN" [] OTHER -> "CLOSED"]]
  /\ net' = [net EXCEPT ![k] = [l \in Clusters |->
                IF l \in up THEN <<Msg("SEND_SYNC")>> \o @[l] ELSE @[l]]]
  /\ UNCHANGED <<jobVars, fini, recvd, sent, submitted, case, around, sched>>

-----------------------------------------------------------------------------
(* Submission and scheduling *)

\* fed_mgr_job_allocate, not held: the local job first, then the siblings.
Submit ==
  /\ Free(Origin) /\ ~submitted
  /\ submitted' = TRUE
  /\ job' = [job EXCEPT ![Origin] = "PENDING"]
  /\ infoLock' = [infoLock EXCEPT ![Origin] = NoLock]
  /\ active' = Clusters
  /\ net' = Outdated(Put(net, Origin, Others(Origin), Msg("SUBMIT")), Origin)
  /\ UNCHANGED <<result, recLock, linkVars, up, case, around, sched>>

\* mutant: an answer that does not look at who has the lock.
MayLock_AnyHolder(s, k) == infoLock[s] # NoInfo

\* fed_mgr_job_lock_set / fed_mgr_job_lock_unset on cluster s for cluster k.
MayLock(s, k) == infoLock[s] \in {NoLock, k}
LockSet(s, k) == IF MayLock(s, k) THEN [infoLock EXCEPT ![s] = k] ELSE infoLock
LockUnset(s, k) == IF MayLock(s, k) THEN [infoLock EXCEPT ![s] = NoLock] ELSE infoLock

SibsSynced(k) == \A l \in Others(k) : HasConn(k, l) => <<k, l>> \in recvd

\* schedule() on a sibling up to the answer of the first RPC: it asks the
\* origin or, with no connection to the origin but one to slurmdbd, goes
\* around it.
JobLock(k) ==
  /\ k # Origin /\ Free(k) /\ job[k] = "PENDING" /\ SibsSynced(k)
  /\ \/ /\ HasConn(k, Origin) \/ ~case.dbd
        /\ Reachable(k, Origin) => MayLock(Origin, k)
        /\ conn' = SendRecv(k, Origin)
        /\ net' = Greeted(net, k, Origin)
        /\ infoLock' = IF Reachable(k, Origin) THEN LockSet(Origin, k) ELSE infoLock
        /\ sched' = IF Reachable(k, Origin)
                    THEN [sched EXCEPT ![k].pc = "granted"] ELSE sched
     \/ /\ ~HasConn(k, Origin) /\ case.dbd
        /\ sched' = [sched EXCEPT ![k] =
                       [pc |-> "locking", todo |-> Others(Origin), got |-> {}]]
        /\ UNCHANGED <<conn, net, infoLock>>
  /\ UNCHANGED <<job, result, recLock, active, fini, recvd, sent, ctlVars>>

\* _job_lock_all_sibs, one sibling per step in the order of the ids.  A
\* sibling with no fed.send is skipped; any refusal or failure ends it.
LockNextSib(k) ==
  /\ sched[k].pc = "locking" /\ sched[k].todo # {}
  /\ LET s == Min(sched[k].todo)
         yes == s = k \/ Reachable(k, s)
         next == [sched[k] EXCEPT !.todo = @ \ {s}]
     IN \/ /\ s # k /\ conn[k][s] = "NULL"
           /\ sched' = [sched EXCEPT ![k] = next]
           /\ UNCHANGED <<conn, net, infoLock>>
        \/ /\ s = k \/ conn[k][s] # "NULL"
           /\ yes /\ MayLock(s, k)
           /\ sched' = [sched EXCEPT ![k] = [next EXCEPT !.got = @ \cup {s}]]
           /\ infoLock' = LockSet(s, k)
           /\ conn' = IF s = k THEN conn ELSE SendRecv(k, s)
           /\ net' = IF s = k THEN net ELSE Greeted(net, k, s)
        \/ /\ s = k \/ conn[k][s] # "NULL"
           /\ ~(yes /\ MayLock(s, k))
           /\ sched' = [sched EXCEPT ![k] = [next EXCEPT !.pc = "release", !.todo = {}]]
           /\ conn' = IF s = k THEN conn ELSE SendRecv(k, s)
           /\ net' = IF s = k THEN net ELSE Greeted(net, k, s)
           /\ UNCHANGED infoLock
  /\ UNCHANGED <<job, result, recLock, active, fini, recvd, sent, ctlVars>>

\* All said yes but no other sibling could be asked.
AskedNobody(k) == sched[k].pc = "locking" /\ sched[k].todo = {} /\ sched[k].got \subseteq {k}

\* _job_unlock_spec_sibs, one sibling per step.
UnlockNextSib(k) ==
  /\ sched[k].pc = "release" \/ AskedNobody(k)
  /\ \/ /\ sched[k].got = {}
        /\ sched' = [sched EXCEPT ![k] = Idle]
        /\ UNCHANGED <<infoLock, conn, net>>
     \/ /\ sched[k].got # {}
        /\ LET s == Min(sched[k].got) IN
           /\ sched' = [sched EXCEPT ![k].got = @ \ {s}]
           /\ infoLock' = IF s = k \/ Reachable(k, s) THEN LockUnset(s, k) ELSE infoLock
           /\ conn' = IF s = k THEN conn ELSE SendRecv(k, s)
           /\ net' = IF s = k THEN net ELSE Greeted(net, k, s)
  /\ UNCHANGED <<job, result, recLock, active, fini, recvd, sent, ctlVars>>

\* fed_mgr_job_lock has the lock of the origin, or of every sibling it asked.
Granted(k) ==
  \/ sched[k].pc = "granted"
  \/ sched[k].pc = "locking" /\ sched[k].todo = {} /\ sched[k].got \ {k} # {}

\* The sibling's own fed_job_info is locked in favour of another: the
\* attempt ends, the record and the origin's lock stay marked.
JobLockRefused(k) ==
  /\ Granted(k) /\ ~MayLock(k, k)
  /\ recLock' = [recLock EXCEPT ![k] = k]
  /\ sched' = [sched EXCEPT ![k] = Idle]
  /\ UNCHANGED <<job, result, infoLock, active, net, linkVars, ctlVars>>

\* mutant: the bit of cluster 0 is kept.
FedJobStartRevoke_KeepsBitZero(n, k, c) ==
  /\ recLock' = [recLock EXCEPT ![k] = c]
  /\ active' = {c}
  /\ net' = RevokeSiblingJobs(n, k, active \ {c})

\* mutant: the active siblings are narrowed before they are used.
FedJobStartRevoke_Narrowed(n, k, c) ==
  /\ recLock' = [recLock EXCEPT ![k] = c]
  /\ active' = {c} \ {NoLock}
  /\ net' = RevokeSiblingJobs(n, k, active' \ {c})

\* _fed_job_start_revoke on the origin, for a job locked by c.
\* FED_SIBLING_BIT(0) is no cluster's bit.
FedJobStartRevoke(n, k, c) ==
  /\ recLock' = [recLock EXCEPT ![k] = c]
  /\ active' = {c} \ {NoLock}
  /\ net' = RevokeSiblingJobs(n, k, active \ {c})

\* A sibling starts the job: its own fed_job_info is locked, select_nodes
\* succeeds, fed_mgr_job_start tells the origin or, if it is down, the others.
SiblingStart(k) ==
  /\ Granted(k) /\ MayLock(k, k)
  /\ sched' = [sched EXCEPT ![k] = Idle]
  /\ job' = [job EXCEPT ![k] = "RUNNING"]
  /\ recLock' = [recLock EXCEPT ![k] = k]
  /\ infoLock' = LockSet(k, k)
  /\ around' = (around \/ sched[k].got # {})
  /\ \/ /\ ~HasConn(k, Origin)
        /\ net' = RevokeSiblingJobs(net, k, Others(Origin))
     \/ /\ HasConn(k, Origin)
        /\ net' = Put(net, k, {Origin}, Msg("START"))
  /\ UNCHANGED <<result, active, linkVars, submitted, up, case>>

\* mutant: the origin does not ask itself for the lock.
OriginStart_Unlocked ==
  /\ Free(Origin) /\ job[Origin] = "PENDING" /\ SibsSynced(Origin)
  /\ infoLock' = LockSet(Origin, Origin)
  /\ job' = [job EXCEPT ![Origin] = "RUNNING"]
  /\ FedJobStartRevoke(net, Origin, Origin)
  /\ UNCHANGED <<result, linkVars, ctlVars, sched>>

\* The origin starts its own copy.  While it holds its own lock the others
\* see only refusals, so the attempt is one step.
OriginStart ==
  /\ Free(Origin) /\ job[Origin] = "PENDING" /\ SibsSynced(Origin)
  /\ MayLock(Origin, Origin)
  /\ infoLock' = LockSet(Origin, Origin)
  /\ job' = [job EXCEPT ![Origin] = "RUNNING"]
  /\ FedJobStartRevoke(net, Origin, Origin)
  /\ UNCHANGED <<result, linkVars, ctlVars, sched>>

\* select_nodes fails on a sibling: fed_mgr_job_unlock.
JobUnlock(k) ==
  /\ Granted(k) /\ MayLock(k, k)
  /\ \/ /\ ~HasConn(k, Origin)
        /\ recLock' = [recLock EXCEPT ![k] = NoLock]
        /\ infoLock' = LockUnset(k, k)
        /\ sched' = [sched EXCEPT ![k] =
                       [pc |-> "release", todo |-> {}, got |-> Others(Origin)]]
        /\ UNCHANGED conn
     \/ /\ HasConn(k, Origin)
        /\ sched' = [sched EXCEPT ![k] = Idle]
        /\ conn' = SendRecv(k, Origin)
        /\ IF Reachable(k, Origin) /\ MayLock(Origin, k)
           THEN /\ infoLock' = [infoLock EXCEPT ![Origin] = NoLock, ![k] = NoLock]
                /\ recLock' = [recLock EXCEPT ![k] = NoLock]
           ELSE /\ infoLock' = LockSet(k, k)
                /\ recLock' = [recLock EXCEPT ![k] = k]
  /\ UNCHANGED <<job, result, active, net, fini, recvd, sent, ctlVars>>

-----------------------------------------------------------------------------
(* The end of the job *)

JobEnds(k, r) ==
  /\ Free(k) /\ job[k] = "RUNNING"
  /\ job' = [job EXCEPT ![k] = "COMPLETING"]
  /\ result' = [result EXCEPT ![k] = r]
  /\ UNCHANGED <<recLock, infoLock, active, net, linkVars, ctlVars, sched>>

\* mutant: a sibling's end is told to the active siblings, which it has none of.
JobComplete_TellsActive(n, k) == RevokeSiblingJobs(n, k, IF k = Origin THEN active ELSE {})

\* fed_mgr_job_complete
JobComplete(n, k) ==
  RevokeSiblingJobs(n, k, IF k = Origin THEN active ELSE {Origin})

\* cleanup_completing, after the epilog on the last node.
CleanupCompleting(k) ==
  /\ Free(k) /\ job[k] = "COMPLETING"
  /\ job' = [job EXCEPT ![k] = "DONE"]
  /\ net' = JobComplete(net, k)
  /\ UNCHANGED <<result, recLock, infoLock, active, linkVars, ctlVars, sched>>

\* unlink_job_record
Unlink(k) ==
  /\ job' = [job EXCEPT ![k] = "NONE"]
  /\ infoLock' = [infoLock EXCEPT ![k] = NoInfo]
  /\ recLock' = [recLock EXCEPT ![k] = NoLock]

\* purge_old_job: a sibling keeps its record until the origin is connected
\* and has been sent a sync.
PurgeOldJob(k) ==
  /\ Free(k) /\ job[k] = "DONE"
  /\ k # Origin => HasConn(k, Origin) /\ <<k, Origin>> \in sent
  /\ Unlink(k)
  /\ UNCHANGED <<result, active, net, linkVars, ctlVars, sched>>

\* fed_mgr_job_started_on_sib
StartedOnSib(k) == k = Origin /\ job[k] = "REVOKED" /\ recLock[k] \notin {NoLock, k}

\* job_signal with SIGKILL on cluster k, n being the messages in flight.
\* noSibs: KILL_NO_SIBS.
JobSignal(k, noSibs, n) ==
  \/ /\ job[k] \in {"NONE", "COMPLETING", "DONE"}
     /\ net' = n
     /\ UNCHANGED <<job, result>>
  \/ /\ job[k] = "RUNNING"
     /\ job' = [job EXCEPT ![k] = "COMPLETING"]
     /\ result' = [result EXCEPT ![k] = "CANCELLED"]
     /\ net' = n
  \/ /\ StartedOnSib(k) /\ ~noSibs
     /\ net' = Put(n, k, active \ {k}, Msg("CANCEL"))
     /\ UNCHANGED <<job, result>>
  \/ /\ job[k] \in {"PENDING", "REVOKED"} /\ (StartedOnSib(k) => noSibs)
     /\ job' = [job EXCEPT ![k] = "DONE"]
     /\ result' = [result EXCEPT ![k] = "CANCELLED"]
     /\ LET told == CASE noSibs \/ (k # Origin /\ HasConn(k, Origin)) -> n
                      [] ~noSibs /\ k = Origin -> RevokeSiblingJobs(n, k, active)
                      [] OTHER -> Put(n, k, {l \in Others(k) : HasConn(k, l)},
                                      Msg("CANCEL_NO_SIBS"))
        IN net' = JobComplete(told, k)

\* _slurm_rpc_kill_job: routed to the origin unless this cluster owns the
\* job or cannot reach the origin.
KillJob(k) ==
  /\ Free(k) /\ job[k] \in {"PENDING", "REVOKED", "RUNNING"}
  /\ case.kills > 0
  /\ case' = [case EXCEPT !.kills = @ - 1]
  /\ k # Origin /\ HasConn(k, Origin) => recLock[k] = k
  /\ JobSignal(k, FALSE, net)
  /\ UNCHANGED <<recLock, infoLock, active, linkVars, submitted, up, around, sched>>

-----------------------------------------------------------------------------
(* The update thread: one handler per message.  k handles a message of s; n *)
(* is net without it.                                                       *)

\* fed_mgr_job_revoke with job_complete set
JobRevoke(k) ==
  \/ /\ job[k] = "DONE"
     /\ UNCHANGED <<job, result, infoLock, recLock>>
  \/ /\ job[k] # "DONE" /\ k = Origin
     /\ job' = [job EXCEPT ![k] = "DONE"]
     /\ result' = [result EXCEPT ![k] = "CANCELLED"]
     /\ UNCHANGED <<infoLock, recLock>>
  \/ /\ job[k] # "DONE" /\ k # Origin
     /\ Unlink(k)
     /\ UNCHANGED result

\* _handle_fed_job_submission: an old record is unlinked, whatever its state;
\* the new job is accepted or refused.
HandleSubmission(k, s, n) ==
  /\ \/ /\ job' = [job EXCEPT ![k] = "PENDING"]
        /\ infoLock' = [infoLock EXCEPT ![k] = NoLock]
        /\ recLock' = [recLock EXCEPT ![k] = NoLock]
        /\ net' = Outdated(n, k)
        /\ UNCHANGED case
     \/ /\ case.refusals > 0
        /\ case' = [case EXCEPT !.refusals = @ - 1]
        /\ Unlink(k)
        /\ net' = Put(n, k, {s}, Msg("SUBMIT_RESP"))
  /\ UNCHANGED <<result, active>>

\* _handle_fed_job_remove_active_sib_bit
HandleSubmitResp(k, s, n) ==
  /\ active' = IF job[k] = "NONE" THEN active ELSE active \ {s}
  /\ net' = n
  /\ UNCHANGED <<job, result, recLock, infoLock>>

\* mutant: a copy that has started is left alone.
HandleComplete_LeavesRunning(k, n) ==
  \/ /\ job[k] \in {"RUNNING", "NONE"}
     /\ net' = n
     /\ UNCHANGED jobVars
  \/ /\ job[k] \notin {"RUNNING", "NONE"}
     /\ JobRevoke(k)
     /\ net' = n
     /\ UNCHANGED active

\* _handle_fed_job_complete: a job that has started is cancelled instead.
HandleComplete(k, n) ==
  \/ /\ job[k] = "RUNNING"
     /\ net' = Put(n, k, {k}, Msg("CANCEL"))
     /\ UNCHANGED jobVars
  \/ /\ job[k] = "NONE"
     /\ net' = n
     /\ UNCHANGED jobVars
  \/ /\ job[k] \notin {"RUNNING", "NONE"}
     /\ JobRevoke(k)
     /\ net' = n
     /\ UNCHANGED active

\* _handle_fed_job_start: the holder of the lock is taken from fed_job_info.
HandleStart(k, n) ==
  \/ /\ job[k] = "NONE"
     /\ net' = n
     /\ UNCHANGED jobVars
  \/ /\ job[k] # "NONE"
     /\ FedJobStartRevoke(n, k, infoLock[k])
     /\ job' = [job EXCEPT ![k] = IF infoLock[k] = k \/ @ = "DONE" THEN @ ELSE "REVOKED"]
     /\ UNCHANGED <<result, infoLock>>

\* _handle_fed_job_cancel
HandleCancel(k, noSibs, n) ==
  /\ JobSignal(k, noSibs, n)
  /\ UNCHANGED <<recLock, infoLock, active>>

\* _handle_fed_send_job_sync: the job as s will see it.
HandleSendSync(k, s, n) ==
  /\ net' = Put(n, k, {s}, [t |-> "SYNC", job |-> job[k], result |-> result[k]])
  /\ UNCHANGED jobVars

-----------------------------------------------------------------------------
(* _reconcile_fed_job on k of the snapshot m of s *)

Cancelled(m) == m.job \in {"COMPLETING", "DONE"} /\ m.result = "CANCELLED"
Completed(m) == m.job \in {"COMPLETING", "DONE"} /\ m.result = "COMPLETE"
Runs(m) == m.job \in {"RUNNING", "COMPLETING"}

\* The job originated on s, which has it no more: kill this copy.
ReconcileFromOrigin(k, m) ==
  /\ m.job \in {"NONE", "DONE"}
  /\ job' = [job EXCEPT ![k] = IF @ = "RUNNING" THEN "COMPLETING" ELSE "DONE"]
  /\ result' = [result EXCEPT ![k] = "CANCELLED"]
  /\ UNCHANGED <<recLock, infoLock, active>>

\* The job is shared by the siblings k and s.
ReconcileShared(k, m) ==
  /\ job[k] = "PENDING"
  /\ \/ /\ Cancelled(m)
        /\ job' = [job EXCEPT ![k] = "DONE"]
        /\ result' = [result EXCEPT ![k] = "CANCELLED"]
        /\ UNCHANGED <<recLock, infoLock>>
     \/ /\ ~Cancelled(m) /\ (Runs(m) \/ m.job = "DONE")
        /\ JobRevoke(k)
  /\ UNCHANGED active

\* The job originated here and s does not have it.
ReconcileMissing(k, s) ==
  \/ /\ s \in active /\ recLock[k] = s
     /\ JobRevoke(k)
     /\ UNCHANGED active
  \/ /\ s \in active /\ recLock[k] # s
     /\ active' = active \ {s}
     /\ UNCHANGED <<job, result, recLock, infoLock>>

\* The job originated here and s has the lock.
ReconcileHolder(k, s, m) ==
  /\ recLock[k] = s
  /\ Completed(m) \/ Cancelled(m)
  /\ JobRevoke(k)
  /\ UNCHANGED active

\* The job originated here, nobody has the lock, and s may have started it.
ReconcileUnlocked(k, s, m, n) ==
  \/ /\ Cancelled(m) \/ m.job = "DONE"
     /\ job' = [job EXCEPT ![k] = "DONE"]
     /\ result' = [result EXCEPT ![k] = "CANCELLED"]
     /\ active' = active \cup {s}
     /\ net' = n
     /\ UNCHANGED <<infoLock, recLock>>
  \/ /\ ~Cancelled(m) /\ Runs(m)
     /\ infoLock' = [infoLock EXCEPT ![k] = s]
     /\ FedJobStartRevoke(n, k, s)
     /\ job' = [job EXCEPT ![k] = "REVOKED"]
     /\ UNCHANGED result
  \/ /\ ~Runs(m) /\ m.job # "DONE"
     /\ active' = active \cup {s}
     /\ net' = n
     /\ UNCHANGED <<job, result, infoLock, recLock>>

\* The cases of _reconcile_fed_job that change something.
Reconcile(k, s, m, n) ==
  \/ s = Origin /\ ReconcileFromOrigin(k, m) /\ net' = n
  \/ s # Origin /\ k # Origin /\ ReconcileShared(k, m) /\ net' = n
  \/ k = Origin /\ m.job = "NONE" /\ ReconcileMissing(k, s) /\ net' = n
  \/ k = Origin /\ m.job # "NONE" /\ ReconcileHolder(k, s, m) /\ net' = n
  \/ /\ k = Origin /\ m.job # "NONE" /\ recLock[k] \notin {NoLock, s}
     /\ net' = RevokeSiblingJobs(n, k, {s})
     /\ UNCHANGED jobVars
  \/ k = Origin /\ m.job # "NONE" /\ recLock[k] = NoLock /\ ReconcileUnlocked(k, s, m, n)

HasCase(k, s, m) ==
  \/ s = Origin /\ m.job \in {"NONE", "DONE"}
  \/ /\ s # Origin /\ k # Origin /\ job[k] = "PENDING"
     /\ Runs(m) \/ m.job = "DONE"
  \/ /\ k = Origin /\ IF m.job = "NONE" THEN s \in active
                      ELSE recLock[k] # s \/ Completed(m) \/ Cancelled(m)

\* _sync_jobs
HandleSync(k, s, m, n) ==
  IF m.job # "OLD" /\ job[k] \in {"PENDING", "REVOKED", "RUNNING"} /\ HasCase(k, s, m)
  THEN Reconcile(k, s, m, n)
  ELSE net' = n /\ UNCHANGED jobVars

-----------------------------------------------------------------------------
\* _fed_job_update_thread
HandleUpdate(k, s) ==
  /\ Free(k) /\ net[s][k] # <<>>
  /\ s # k => conn[s][k] = "OPEN"
  /\ LET m == Head(net[s][k])
         n == [net EXCEPT ![s][k] = Tail(@)]
     IN /\ \/ m.t = "SUBMIT" /\ HandleSubmission(k, s, n)
           \/ m.t = "SUBMIT_RESP" /\ HandleSubmitResp(k, s, n)
           \/ m.t = "COMPLETE" /\ HandleComplete(k, n)
           \/ m.t = "START" /\ HandleStart(k, n)
           \/ m.t = "CANCEL" /\ HandleCancel(k, FALSE, n)
           \/ m.t = "CANCEL_NO_SIBS" /\ HandleCancel(k, TRUE, n)
           \/ m.t = "SEND_SYNC" /\ HandleSendSync(k, s, n)
           \/ m.t = "SYNC" /\ HandleSync(k, s, m, n)
        /\ m.t # "SUBMIT" => UNCHANGED case
        /\ recvd' = recvd \cup (IF m.t = "SYNC" THEN {<<k, s>>} ELSE {})
        /\ sent' = sent \cup (IF m.t = "SEND_SYNC" THEN {<<k, s>>} ELSE {})
  /\ UNCHANGED <<conn, fini, submitted, up, around, sched>>

Next ==
  \/ Submit \/ OriginStart
  \/ \E k, l \in Clusters :
       OpenSend(k, l) \/ AgentFails(k, l) \/ CallbackFini(k, l) \/ HandleUpdate(k, l)
  \/ \E k \in Clusters :
       \/ Stop(k) \/ Boot(k)
       \/ JobLock(k) \/ LockNextSib(k) \/ UnlockNextSib(k)
       \/ JobLockRefused(k) \/ SiblingStart(k) \/ JobUnlock(k)
       \/ CleanupCompleting(k) \/ PurgeOldJob(k) \/ KillJob(k)
       \/ \E r \in case.ends : JobEnds(k, r)

Spec == Init /\ [][Next]_vars

\* Threads run: the agent and the update thread, which gets the job lock
\* between two attempts of the scheduler; an attempt ends; a stopped slurmctld
\* is started again.  Nothing is assumed of when jobs start or end.
Fairness ==
  /\ WF_vars(\E k, l \in Clusters : OpenSend(k, l) \/ AgentFails(k, l))
  /\ WF_vars(\E k \in Clusters : Boot(k))
  /\ \A k \in Clusters :
       /\ SF_vars(\E l \in Clusters : HandleUpdate(k, l) \/ CallbackFini(k, l))
       /\ WF_vars(LockNextSib(k) \/ UnlockNextSib(k) \/ JobLockRefused(k)
                  \/ SiblingStart(k) \/ JobUnlock(k))
       /\ SF_vars(CleanupCompleting(k))

FairSpec == Spec /\ Fairness

-----------------------------------------------------------------------------
Running == {k \in Clusters : job[k] = "RUNNING"}

\* Two siblings never run the job at once, whether they lock it at the origin
\* or, with the origin gone, at each other (_job_lock_all_sibs); a restart of
\* the origin between the two ways does not open a gap between them.
SiblingsExclusive == Cardinality(Running \ {Origin}) <= 1

\* As long as every lock was taken at the origin (fed_mgr_job_lock asking
\* fed_mgr_job_lock_set there), at most one cluster of the federation runs the
\* job: through lost START messages, restarts and the syncs that follow.
OriginExclusive == ~around => Cardinality(Running) <= 1

\* Clusters that stay up: once a copy runs, every other pending copy is revoked
\* (_fed_job_start_revoke), unless the running one stops first.
CopiesRevoked ==
  \A k \in Clusters : (job[k] = "PENDING" /\ Running \ {k} # {})
                      ~> (job[k] # "PENDING" \/ Running = {})

\* Once the origin has finished with the job, whether by completion, scancel or
\* purge, no sibling keeps a live copy: a copy that starts after all is cancelled
\* when it hears of it (_handle_fed_job_complete).
OriginDoneSettles ==
  (submitted /\ job[Origin] \in {"NONE", "DONE"})
     ~> (\A k \in Clusters : job[k] \in {"NONE", "DONE"})

\* The origin's REVOKED tracking record ends once no sibling has the job any
\* more: fed_mgr_job_complete "Tells the origin cluster to revoke the tracking
\* job".
TrackerEnds ==
  (job[Origin] = "REVOKED" /\ \A k \in Others(Origin) : job[k] \in {"NONE", "DONE"})
     ~> (job[Origin] # "REVOKED")

=============================================================================
