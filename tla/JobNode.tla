------------------------------- MODULE JobNode -------------------------------
(***************************************************************************)
(* The life of a job on its nodes as slurmctld keeps it: allocation, the   *)
(* slurmctld prolog, suspension, termination by every path, the epilog     *)
(* messages of the nodes, node failure, and requeue.  Every action is one  *)
(* handler run under the job and node write locks, except the scan of the  *)
(* job list after a node failure, which is one step per job with the locks *)
(* held (variable down).                                                   *)
(***************************************************************************)
EXTENDS NodeMgr, FiniteSets

CONSTANTS
  Jobs, Nodes,
  NULL,             \* the NULL bitmap pointer
  Batch,            \* jobs with batch_flag: they have a script
  Requeue,          \* jobs with details->requeue (--requeue)
  NoKill,           \* jobs with kill_on_node_fail = 0 (--no-kill)
  Exclusive,        \* jobs with share_res = 0 (--exclusive)
  OwnerExclusive,   \* jobs with WHOLE_NODE_USER (--exclusive=user)
  Expedited,        \* jobs with EXPEDITED_REQUEUE (--requeue=expedite)
  User,             \* the user of each job
  NodesReq,         \* the number of nodes each job asks for
  PrologSlurmctld,  \* is PrologSlurmctld configured?
  EpilogSlurmctld,  \* is EpilogSlurmctld configured?
  RequeueExit,      \* "none", "requeue" (RequeueExit) or "hold" (RequeueExitHold)
  MaxBatchRequeue,  \* launch failures before a job is held
  ReturnToService,  \* is ReturnToService 2: a DOWN node that answers returns
  Inputs,           \* requests and failures this instance contains
  MaxSluid          \* bound: incarnations of a job

ASSUME SetAssumption ==
  /\ Batch \subseteq Jobs /\ Requeue \subseteq Jobs /\ NoKill \subseteq Jobs
  /\ Exclusive \subseteq Jobs /\ OwnerExclusive \subseteq Jobs
  /\ Expedited \subseteq Jobs
  /\ User \in [Jobs -> Users] /\ NodesReq \in [Jobs -> Nat \ {0}]
ASSUME FiniteAssumption == IsFiniteSet(Jobs) /\ IsFiniteSet(Nodes)
ASSUME ParamAssumption ==
  /\ {PrologSlurmctld, EpilogSlurmctld, ReturnToService} \subseteq BOOLEAN
  /\ MaxBatchRequeue \in Nat /\ MaxSluid \in Nat \ {0}
ASSUME NullAssumption == NULL \notin Nodes /\ \A b \in SUBSET Nodes : b # NULL

VARIABLES
  job,    \* job_list: the job record of each job
  node,   \* node_record_table_ptr: the node record of each node
  down,   \* the node whose failure is being handled and the jobs still to scan
  msgs,   \* TERMINATE_JOB requests and EPILOG_COMPLETE messages in flight
  procs   \* slurmd: the job incarnations with processes on each node

vars == <<job, node, down, msgs, procs>>

-----------------------------------------------------------------------------
(* Types.                                                                  *)

Active   == {"RUNNING", "SUSPENDED"}
Finished == {"COMPLETE", "CANCELLED", "FAILED", "TIMEOUT", "NODE_FAIL"}
JobBase  == {"PENDING"} \cup Active \cup Finished
JobFlags == {"COMPLETING", "CONFIGURING", "EXPEDITING"}
Bitmaps  == {NULL} \cup SUBSET Nodes

\* 0; not 0 but WEXITSTATUS() is 0 (a signal, or the 1 of a lost node); an exit
ExitCodes == {"zero", "signal", "exit"}

JobRecord ==
  [ state : JobBase, flags : SUBSET JobFlags,
    node_bitmap : Bitmaps, node_bitmap_cg : Bitmaps, node_cnt : Nat,
    prolog_running : BOOLEAN, epilog_running : BOOLEAN,
    epilog_failed : BOOLEAN,
    exit_code : ExitCodes,
    held : BOOLEAN,             \* priority is 0
    batch_flag : Nat,           \* 1 + launch failures, 0 if not a batch job
    launched : BOOLEAN,         \* slurmd has been sent this incarnation
    sluid : Nat \ {0} ]

Messages == [type : {"TERMINATE", "EPILOG"}, job : Jobs, node : Nodes,
             sluid : Nat, rc : {0, 1}]

TypeOK ==
  /\ job \in [Jobs -> JobRecord]
  /\ node \in [Nodes -> NodeRecord]
  /\ down \in [node : {NULL} \cup Nodes, todo : SUBSET Jobs]
  /\ msgs \subseteq Messages
  /\ procs \in [Nodes -> SUBSET (Jobs \X Nat)]

-----------------------------------------------------------------------------
(* Operations on a job record.                                             *)

JobStateSet(r, state, flags) == [r EXCEPT !.state = state, !.flags = flags]

Completing(r) == "COMPLETING" \in r.flags
Expediting(r) == "EXPEDITING" \in r.flags
IsFinished(r) == r.state \in Finished
OnNode(r, n)  == r.node_bitmap # NULL /\ n \in r.node_bitmap

BuildCgBitmap(r) ==
  LET cg == IF r.node_bitmap = NULL THEN {} ELSE r.node_bitmap
  IN [r EXCEPT !.node_bitmap_cg = cg,
               !.flags = IF cg = {} THEN @ \ {"COMPLETING"} ELSE @]

\* mutant: the test for a cancelled job is missing
JobHoldRequeue_Cancelled(j, r) ==
  IF r.state # "PENDING" /\ j \in Requeue /\ r.exit_code = "exit"
     /\ RequeueExit # "none"
  THEN JobStateSet(r, "PENDING", r.flags) ELSE r

\* job_hold_requeue() with _set_job_requeue_exit_value()
JobHoldRequeue(j, r) ==
  IF \/ r.state \in {"PENDING", "CANCELLED"}
     \/ j \notin Requeue
     \/ r.exit_code # "exit"
  THEN r
  ELSE IF j \in Expedited
  THEN JobStateSet(r, "PENDING", r.flags \cup {"EXPEDITING"})
  ELSE IF RequeueExit # "none"
  THEN [JobStateSet(r, "PENDING", r.flags) EXCEPT
          !.held = @ \/ RequeueExit = "hold"]
  ELSE r

\* The condition under which cleanup_completing() does not return at once.
AllQuiet(r) == ~r.epilog_running /\ r.node_cnt = 0

CleanupCompleting(j, r) ==
  IF AllQuiet(r)
  THEN JobHoldRequeue(j, [r EXCEPT !.flags = @ \ {"COMPLETING"}])
  ELSE r

\* batch_requeue_fini() on the job: it becomes a new incarnation.
BatchRequeueFini(j, r) ==
  IF \/ Completing(r) \/ r.state # "PENDING" \/ j \notin Batch
     \/ Expediting(r) /\ r.epilog_running
  THEN r
  ELSE LET hold == Expediting(r) /\ ~r.epilog_failed
       IN [r EXCEPT !.flags = IF hold THEN @ \ {"EXPEDITING"} ELSE @,
                    !.held = @ \/ hold,
                    !.node_cnt = 0, !.node_bitmap = NULL,
                    !.node_bitmap_cg = NULL, !.epilog_failed = FALSE,
                    !.launched = FALSE, !.sluid = @ + 1]

\* batch_requeue_fini() on the nodes: the decrements make_node_idle() deferred.
ExpediteRelease(r, nodes) ==
  [n \in Nodes |->
     IF Expediting(r) /\ OnNode(r, n)
     THEN RefreshIdle([nodes[n] EXCEPT !.comp_job_cnt = Decr(@)])
     ELSE nodes[n]]

\* mutant: the job is completing even when nothing is left to complete
SetRequeuedJobPendingCompleting_Always(r) ==
  JobStateSet(r, "PENDING", (r.flags \cap {"EXPEDITING"}) \cup {"COMPLETING"})

SetRequeuedJobPendingCompleting(r) ==
  JobStateSet(r, "PENDING",
              (r.flags \cap {"EXPEDITING"}) \cup
              (IF AllQuiet(r) THEN {} ELSE {"COMPLETING"}))

HandleRequeueLimit(r) ==
  IF r.batch_flag <= MaxBatchRequeue THEN r
  ELSE [r EXCEPT !.batch_flag = 1, !.held = TRUE]

-----------------------------------------------------------------------------
(* deallocate_nodes().  It is called with node_bitmap_cg built, after the  *)
(* job's state has been changed.  down(nodes) is the set of DOWN nodes.    *)

DownNodes(nodes) == {n \in Nodes : IsDown(nodes[n])}

DeallocateJob(j, r, nodes) ==
  LET lost == r.node_bitmap_cg \cap DownNodes(nodes)
      q == [r EXCEPT !.epilog_running = EpilogSlurmctld,
                     !.node_bitmap_cg = @ \ lost,
                     !.node_cnt = @ - Cardinality(lost)]
      s == CleanupCompleting(j, q)
      \* not launched yet: job_epilog_complete() for every node left
      t == CleanupCompleting(j, [s EXCEPT !.node_bitmap_cg = {}, !.node_cnt = 0])
  IN IF ~r.prolog_running \/ s.node_bitmap_cg = {} THEN s
     ELSE IF Completing(t) THEN t ELSE BatchRequeueFini(j, t)

\* mutant: make_node_comp() is not called for a DOWN node
DeallocateNodes_SkipsDown(j, r, nodes, suspended) ==
  [n \in Nodes |->
     IF n \in r.node_bitmap_cg /\ ~IsDown(nodes[n])
     THEN MakeNodeComp(nodes[n], j \in Exclusive, suspended) ELSE nodes[n]]

DeallocateNodes(j, r, nodes, suspended) ==
  LET comp(n) == MakeNodeComp(nodes[n], j \in Exclusive, suspended)
  IN [n \in Nodes |->
        IF n \notin r.node_bitmap_cg THEN nodes[n]
        ELSE IF r.prolog_running /\ ~IsDown(nodes[n])
        THEN MakeNodeIdle(comp(n), TRUE, r.state, FALSE, j \in OwnerExclusive)
        ELSE comp(n)]

\* did deallocate_nodes() return true: some job_epilog_complete() finished it
DeallocateFini(j, r, nodes) ==
  /\ r.prolog_running
  /\ r.node_bitmap_cg \ DownNodes(nodes) # {}
  /\ ~Completing(DeallocateJob(j, r, nodes))

TerminateMsgs(j, r) ==
  IF r.prolog_running THEN {}
  ELSE [type : {"TERMINATE"}, job : {j}, node : r.node_bitmap_cg,
        sluid : {r.sluid}, rc : {0}]

-----------------------------------------------------------------------------
(* Ways for a job to end.  End* is the sequence most of them share: set    *)
(* the final state with COMPLETING, build node_bitmap_cg, deallocate.      *)

Ending(r, state, code) ==
  BuildCgBitmap([JobStateSet(r, state, {"COMPLETING"}) EXCEPT !.exit_code = code])

EndJob(j, r, state, code, nodes) == DeallocateJob(j, Ending(r, state, code), nodes)

EndNodes(j, r, state, nodes) ==
  DeallocateNodes(j, Ending(r, state, r.exit_code), nodes, r.state = "SUSPENDED")

EndMsgs(j, r) == TerminateMsgs(j, BuildCgBitmap(r))

\* job_signal(SIGKILL)
CancelJob(j, r, nodes) ==
  CASE IsFinished(r) -> r
    [] r.state = "PENDING" ->
         JobStateSet(r, "CANCELLED", r.flags \cap {"COMPLETING"})
    [] OTHER -> EndJob(j, r, "CANCELLED", r.exit_code, nodes)

\* what _job_complete() makes of a return code
FinalState(code) == IF code = "zero" THEN "COMPLETE" ELSE "FAILED"

\* _job_complete(requeue = false)
CompleteJob(j, r, code, nodes) ==
  CASE IsFinished(r) -> [r EXCEPT !.exit_code = IF @ = "zero" THEN code ELSE @]
    [] ~IsFinished(r) /\ Completing(r) -> r
    [] r.state = "PENDING" /\ ~Completing(r) ->
         IF j \in Batch THEN r ELSE JobStateSet(r, "CANCELLED", {})
    [] OTHER -> EndJob(j, r, FinalState(code), code, nodes)

\* _job_complete(requeue = true, code 0) of an active batch job.  The flag
\* JOB_EXPEDITING it sets is overwritten by the job_state_set() that follows.
RelaunchJob(j, r, nodes) ==
  EndJob(j, HandleRequeueLimit([r EXCEPT !.batch_flag = @ + 1]),
         "PENDING", "zero", nodes)

\* _job_requeue_op() after its checks.  kind: requeue, requeue and hold, or
\* JOB_LAUNCH_FAILED.
RequeueHold(r, kind) ==
  CASE kind = "hold" -> [r EXCEPT !.held = TRUE]
    [] kind = "launch_failed" ->
         [HandleRequeueLimit([r EXCEPT !.batch_flag = @ + 1]) EXCEPT !.held = TRUE]
    [] OTHER -> r

\* mutant: the bitmap is built again for a job that is already completing
RequeueCompleting_Rebuilds(r, kind) ==
  RequeueHold(BuildCgBitmap(JobStateSet(r, "PENDING", r.flags)), kind)

RequeueCompleting(r, kind) == RequeueHold(JobStateSet(r, "PENDING", r.flags), kind)

RequeueAllowed(j, r) == j \in Requeue /\ j \in Batch /\ r.state # "PENDING"

RequeueJob(j, r, kind, nodes) ==
  LET q == Ending(r, "PENDING", r.exit_code)
      t == DeallocateJob(j, q, nodes)
      s == RequeueHold(SetRequeuedJobPendingCompleting(t), kind)
      f == SetRequeuedJobPendingCompleting(
             BuildCgBitmap(JobStateSet(r, "PENDING", {})))
  IN CASE Completing(r) -> RequeueCompleting(r, kind)
       [] ~Completing(r) /\ r.state \in Active ->
            IF Completing(t) \/ DeallocateFini(j, q, nodes) THEN s
            ELSE BatchRequeueFini(j, s)
       [] OTHER -> BatchRequeueFini(j, RequeueHold(f, kind))

ActiveNodes(j, r, state, nodes) ==
  IF r.state \in Active THEN EndNodes(j, r, state, nodes) ELSE nodes
ActiveMsgs(j, r) == IF r.state \in Active THEN EndMsgs(j, r) ELSE {}

-----------------------------------------------------------------------------
(* Initial state.                                                          *)

NewJob(j) ==
  [ state |-> "PENDING", flags |-> {}, node_bitmap |-> NULL,
    node_bitmap_cg |-> NULL, node_cnt |-> 0, prolog_running |-> FALSE,
    epilog_running |-> FALSE, epilog_failed |-> FALSE, exit_code |-> "zero",
    held |-> FALSE, batch_flag |-> IF j \in Batch THEN 1 ELSE 0,
    launched |-> FALSE, sluid |-> 1 ]

Init ==
  /\ job = [j \in Jobs |-> NewJob(j)]
  /\ node = [n \in Nodes |-> FreshNode]
  /\ down = [node |-> NULL, todo |-> {}]
  /\ msgs = {}
  /\ procs = [n \in Nodes |-> {}]

LocksFree == down.node = NULL

\* a handler that only changes job j and its nodes
Handle(j, r, nodes, sent) ==
  /\ job' = [job EXCEPT ![j] = r]
  /\ node' = nodes
  /\ msgs' = msgs \cup sent
  /\ UNCHANGED down

-----------------------------------------------------------------------------
(* Scheduling and launch.                                                  *)

\* filter_by_node_owner(): the job holds its nodes (neither pending nor over)
Holds(k, n) == /\ OnNode(job[k], n)
               /\ job[k].state # "PENDING"
               /\ IsFinished(job[k]) => Completing(job[k])

OwnerAllows(j, n) ==
  IF j \in OwnerExclusive
  THEN \A k \in Jobs : Holds(k, n) => User[k] = User[j]
  ELSE node[n].owner \in {NO_VAL, User[j]}

\* the bitmaps _pick_best_nodes() restricts the choice to
Usable(j, n) ==
  /\ node[n].avail
  /\ IF j \in Exclusive THEN node[n].idle ELSE node[n].share
  /\ ~node[n].completing
  /\ OwnerAllows(j, n)

\* _job_runnable_test1()
Runnable(r) ==
  r.state = "PENDING" /\ ~Completing(r) /\ ~r.prolog_running /\ ~r.held

\* launch_job(): slurmd starts processes on every node of the allocation
Launch(j, r, now) ==
  procs' = [n \in Nodes |-> IF now /\ OnNode(r, n)
                            THEN procs[n] \cup {<<j, r.sluid>>} ELSE procs[n]]

\* allocate_nodes()
AllocateNodes(j, ns, nodes) ==
  [n \in Nodes |->
     IF n \in ns
     THEN MakeNodeAlloc(nodes[n], j \in Exclusive, j \in OwnerExclusive, User[j])
     ELSE nodes[n]]

\* what select_nodes() and prolog_slurmctld() write into the job record
StartJob(r, ns) ==
  [JobStateSet(r, "RUNNING", IF PrologSlurmctld THEN {"CONFIGURING"} ELSE {})
     EXCEPT !.node_bitmap = ns, !.node_cnt = Cardinality(ns),
            !.prolog_running = PrologSlurmctld,
            !.exit_code = "zero", !.launched = ~PrologSlurmctld]

\* select_nodes(), and launch_job() when there is no prolog to wait for
Start(j, ns) ==
  LET r == StartJob(job[j], ns)
  IN /\ LocksFree
     /\ job[j].sluid <= MaxSluid
     /\ Runnable(job[j])
     /\ Cardinality(ns) = NodesReq[j]
     /\ \A n \in ns : Usable(j, n)
     /\ Handle(j, r, AllocateNodes(j, ns, node), {})
     /\ Launch(j, r, r.launched)

\* prolog_running_decr()
PrologRunningDecr(r) ==
  LET ready == "CONFIGURING" \in r.flags /\ r.state \in Active
  IN [r EXCEPT !.prolog_running = FALSE,
               !.flags = IF ready THEN @ \ {"CONFIGURING"} ELSE @,
               !.launched = @ \/ ready]

\* prep_prolog_slurmctld_callback()
PrologSlurmctldDone(j, ok) ==
  LET r == job[j]
      requeues == ~ok /\ RequeueAllowed(j, r)
      kills    == ~ok /\ ~RequeueAllowed(j, r) /\ ~(j \in Requeue \cap Batch)
      q == CASE requeues -> RequeueJob(j, r, "plain", node)
             [] kills    -> CancelJob(j, r, node)
             [] OTHER    -> r
      t == PrologRunningDecr(q)
      ends == (requeues \/ kills) /\ r.state \in Active
  IN /\ LocksFree /\ r.prolog_running
     /\ ok \/ "prolog_fail" \in Inputs
     /\ Handle(j, t, IF ends THEN EndNodes(j, r, "CANCELLED", node) ELSE node, {})
     /\ Launch(j, t, t.launched /\ ~r.launched)

-----------------------------------------------------------------------------
(* Termination.                                                            *)

Requested(input) == LocksFree /\ input \in Inputs

\* scancel
Cancel(j) ==
  /\ Requested("cancel")
  /\ ~IsFinished(job[j])
  /\ Handle(j, CancelJob(j, job[j], node),
            ActiveNodes(j, job[j], "CANCELLED", node), ActiveMsgs(j, job[j]))
  /\ UNCHANGED procs

\* job_time_limit() finds the job over its limit: _job_timed_out()
TimeLimit(j) ==
  /\ Requested("timeout")
  /\ job[j].state = "RUNNING"
  /\ Handle(j, EndJob(j, job[j], "TIMEOUT", job[j].exit_code, node),
            EndNodes(j, job[j], "TIMEOUT", node), EndMsgs(j, job[j]))
  /\ UNCHANGED procs

\* REQUEST_COMPLETE_BATCH_SCRIPT or REQUEST_COMPLETE_JOB_ALLOCATION of this
\* incarnation (others do not match the job's SLUID); it may come late or twice.
JobComplete(j, code) ==
  /\ LocksFree
  /\ job[j].launched
  /\ Handle(j, CompleteJob(j, job[j], code, node),
            ActiveNodes(j, job[j], FinalState(code), node), ActiveMsgs(j, job[j]))
  /\ UNCHANGED procs

\* the agent cannot deliver REQUEST_BATCH_JOB_LAUNCH
LaunchFailure(j) ==
  /\ Requested("launch_fail")
  /\ j \in Batch /\ job[j].launched
  /\ job[j].state \in Active
  /\ Handle(j, RelaunchJob(j, job[j], node),
            EndNodes(j, job[j], "PENDING", node), EndMsgs(j, job[j]))
  /\ UNCHANGED procs

\* scontrol requeue, requeuehold, or slurmd reporting a launch failure
RequeueOp(j, kind) ==
  /\ Requested("requeue")
  /\ job[j].sluid <= MaxSluid
  /\ RequeueAllowed(j, job[j])
  /\ Handle(j, RequeueJob(j, job[j], kind, node),
            ActiveNodes(j, job[j], "PENDING", node), ActiveMsgs(j, job[j]))
  /\ UNCHANGED procs

\* scontrol release
Release(j) ==
  /\ Requested("requeue")
  /\ job[j].state = "PENDING" /\ job[j].held
  /\ Handle(j, [job[j] EXCEPT !.held = FALSE], node, {})
  /\ UNCHANGED procs

\* mutant: the priority of a suspended job is kept
SuspendJob_NotHeld(r) == JobStateSet(r, "SUSPENDED", {})

SuspendJob(r) == [JobStateSet(r, "SUSPENDED", {}) EXCEPT !.held = TRUE]

\* scontrol suspend, resume: _job_suspend_op()
Suspend(j) ==
  /\ Requested("suspend")
  /\ job[j].state = "RUNNING"
  /\ Handle(j, SuspendJob(job[j]),
            [n \in Nodes |-> IF OnNode(job[j], n)
                             THEN SuspendJobNode(node[n], j \in Exclusive)
                             ELSE node[n]], {})
  /\ UNCHANGED procs

Resume(j) ==
  /\ Requested("suspend")
  /\ job[j].state = "SUSPENDED"
  /\ \A n \in Nodes : OnNode(job[j], n) => ~IsDown(node[n])
  /\ Handle(j, [JobStateSet(job[j], "RUNNING", {}) EXCEPT !.held = FALSE],
            [n \in Nodes |-> IF OnNode(job[j], n)
                             THEN ResumeJobNode(node[n], j \in Exclusive)
                             ELSE node[n]], {})
  /\ UNCHANGED procs

-----------------------------------------------------------------------------
(* Completion: slurmd, its messages, and the slurmctld epilog.             *)

\* cleanup_completing(job, true)
CleanupRequeue(j, r) ==
  IF AllQuiet(r) THEN BatchRequeueFini(j, CleanupCompleting(j, r)) ELSE r
CleanupRequeueNodes(j, r, nodes) ==
  IF AllQuiet(r) THEN ExpediteRelease(CleanupCompleting(j, r), nodes) ELSE nodes

\* slurmd: _rpc_terminate_job() kills the job's processes, whatever their
\* incarnation, runs the epilog and reports.
SlurmdTerminateJob(m, rc) ==
  /\ LocksFree
  /\ m.type = "TERMINATE"
  /\ rc = 0 \/ "epilog_fail" \in Inputs
  /\ procs' = [procs EXCEPT ![m.node] = {p \in @ : p[1] # m.job}]
  /\ msgs' = (msgs \ {m}) \cup {[m EXCEPT !.type = "EPILOG", !.rc = rc]}
  /\ UNCHANGED <<job, node, down>>

\* the guard of job_epilog_complete() against a job that is not completing
EpilogIgnored(r) ==
  \/ r.state = "PENDING" /\ ~Completing(r)
  \/ r.node_bitmap_cg = NULL /\ ~Completing(r)
  \/ r.node_bitmap = NULL

\* mutant: find_job() does not compare the SLUID
EpilogMatches_AnyJob(m, r) == ~EpilogIgnored(r)

\* find_job() matches the SLUID of the message
EpilogMatches(m, r) == m.sluid = r.sluid /\ ~EpilogIgnored(r)

\* make_node_idle() on the job
NodeEpilogDone(j, r, n) ==
  IF n \in r.node_bitmap_cg /\ r.node_cnt > 0
  THEN CleanupCompleting(j, [r EXCEPT !.node_bitmap_cg = @ \ {n}, !.node_cnt = @ - 1])
  ELSE r

\* _slurm_rpc_epilog_complete(), job_epilog_complete().  again: slurmd misses
\* the reply and will send the message once more.
EpilogComplete(m, again) ==
  LET j == m.job
      n == m.node
      r == [job[j] EXCEPT !.epilog_failed = @ \/ m.rc # 0]
      q == NodeEpilogDone(j, r, n)
      d == IF m.rc # 0 THEN DrainNode(node[n]) ELSE node[n]
      nodes == [node EXCEPT ![n] = MakeNodeIdle(d, n \in r.node_bitmap_cg, q.state,
                                                Expediting(q), j \in OwnerExclusive)]
  IN /\ LocksFree
     /\ m.type = "EPILOG"
     /\ msgs' = IF again THEN msgs ELSE msgs \ {m}
     /\ IF EpilogMatches(m, job[j])
        THEN /\ job' = [job EXCEPT ![j] = IF Completing(q) THEN q
                                          ELSE BatchRequeueFini(j, q)]
             /\ node' = IF Completing(q) THEN nodes ELSE ExpediteRelease(q, nodes)
        ELSE UNCHANGED <<job, node>>
     /\ UNCHANGED <<down, procs>>

LoseMessage(m) ==
  /\ LocksFree
  /\ msgs' = msgs \ {m}
  /\ UNCHANGED <<job, node, down, procs>>

\* prep_epilog_slurmctld_callback()
EpilogSlurmctldDone(j) ==
  LET r == [job[j] EXCEPT !.epilog_running = FALSE]
  IN /\ LocksFree /\ job[j].epilog_running
     /\ IF Completing(r)
        THEN Handle(j, CleanupRequeue(j, r), CleanupRequeueNodes(j, r, node), {})
        ELSE Handle(j, r, node, {})
     /\ UNCHANGED procs

\* mutant: only the nodes that are DOWN are looked at
ReKillTargets_None(cg) == {}

ReKillTargets(cg) == {n \in cg : ~node[n].no_respond}

\* re_kill_job(), from the purge of old jobs
ReKillJob(j) ==
  LET cg   == job[j].node_bitmap_cg
      lost == cg \cap DownNodes(node)
      q    == [job[j] EXCEPT !.node_bitmap_cg = @ \ lost,
                             !.node_cnt = @ - Cardinality(lost)]
      nodes == [n \in Nodes |->
                  IF n \in lost THEN [node[n] EXCEPT !.comp_job_cnt = Decr(@)]
                  ELSE node[n]]
      done == lost # {} /\ q.node_cnt = 0
      r    == IF done THEN CleanupRequeue(j, q) ELSE q
  IN /\ LocksFree
     /\ Completing(job[j]) /\ cg # NULL
     /\ Handle(j, r, IF done THEN CleanupRequeueNodes(j, q, nodes) ELSE nodes,
               [type : {"TERMINATE"}, job : {j}, node : ReKillTargets(q.node_bitmap_cg),
                sluid : {job[j].sluid}, rc : {0}])
     /\ UNCHANGED procs

-----------------------------------------------------------------------------
(* The node itself: ping results, registration, scontrol update.           *)

\* a request that changes the record of node n and nothing else
NodeEvent(input, n, d) ==
  /\ Requested(input)
  /\ node' = [node EXCEPT ![n] = d]
  /\ UNCHANGED <<job, down, msgs, procs>>

NotResponding(n) == NodeEvent("no_resp", n, NodeNotResp(node[n]))
Responding(n)    == NodeEvent("no_resp", n, NodeDidResp(node[n], ReturnToService))
Register(n)      == NodeEvent("register", n, ValidateNodeSpecs(node[n], ReturnToService))
Drain(n)         == NodeEvent("drain", n, DrainNode(node[n]))
UndoDrain(n)     == /\ IsDown(node[n]) \/ node[n].drain
                    /\ NodeEvent("drain", n, ResumeNode(node[n]))

-----------------------------------------------------------------------------
(* Node failure.                                                           *)

\* set_node_down_ptr() up to the scan of the job list.  The node's processes
\* are lost to the model: slurmctld assumes nothing of them any more.
SetNodeDown(n) ==
  /\ Requested("down")
  /\ ~IsDown(node[n])
  /\ node' = [node EXCEPT ![n] = MakeNodeDown(@)]
  /\ procs' = [procs EXCEPT ![n] = {}]
  /\ down' = [node |-> n, todo |-> Jobs]
  /\ UNCHANGED <<job, msgs>>

\* the scan of _foreach_kill_running_job_by_node() reaches job j
Scan(j, r, nodes, sent) ==
  /\ down.node # NULL /\ j \in down.todo
  /\ down' = [down EXCEPT !.todo = @ \ {j}]
  /\ job' = [job EXCEPT ![j] = r]
  /\ node' = nodes
  /\ msgs' = msgs \cup sent
  /\ UNCHANGED procs

HitBy(j) == OnNode(job[j], down.node)

ScanSkips(j) ==
  /\ \/ ~HitBy(j)
     \/ Completing(job[j]) /\ down.node \notin job[j].node_bitmap_cg
     \/ ~Completing(job[j]) /\ job[j].state \notin Active
  /\ Scan(j, job[j], node, {})

ScanCompleting(j) ==
  LET n == down.node
      r == [job[j] EXCEPT !.node_bitmap_cg = @ \ {n}, !.node_cnt = Decr(@)]
      nodes == CleanupRequeueNodes(j, r, node)
  IN /\ HitBy(j) /\ Completing(job[j]) /\ n \in job[j].node_bitmap_cg
     /\ Scan(j, CleanupRequeue(j, r),
             [nodes EXCEPT ![n].comp_job_cnt = Decr(@)], {})

ScanActive(j) == HitBy(j) /\ ~Completing(job[j]) /\ job[j].state \in Active

Survives(j) ==
  j \in NoKill /\ job[j].node_cnt > 1 /\ "CONFIGURING" \notin job[j].flags

\* mutant: the node stays in the allocation
ExcisedBitmap_Kept(r, n) == r.node_bitmap

\* make_node_idle() clears the bit in node_bitmap_cg if there is one
ExcisedBitmap(r, n) ==
  IF r.node_bitmap_cg = NULL THEN r.node_bitmap \ {n} ELSE r.node_bitmap

\* --no-kill: excise_node_from_job()
ScanExcises(j) ==
  LET n == down.node
      r == job[j]
      fresh == r.node_bitmap_cg = NULL \/ n \in r.node_bitmap_cg
      left == ExcisedBitmap(r, n)
  IN /\ ScanActive(j) /\ Survives(j)
     /\ Scan(j, [r EXCEPT !.node_bitmap = left, !.node_cnt = Cardinality(left)],
             [node EXCEPT ![n] = MakeNodeIdle(@, fresh, r.state, FALSE,
                                              j \in OwnerExclusive)], {})

ScanRequeues(j) ==
  LET r == job[j]
      q == BuildCgBitmap([JobStateSet(r, "NODE_FAIL", {}) EXCEPT !.exit_code = "signal"])
      t == SetRequeuedJobPendingCompleting(DeallocateJob(j, q, node))
      x == j \in Expedited
      s == [t EXCEPT !.exit_code = "zero",
                     !.flags = IF x THEN @ \cup {"EXPEDITING"} ELSE @,
                     !.epilog_failed = @ \/ x]
      nodes == DeallocateNodes(j, q, node, r.state = "SUSPENDED")
      fini == s.node_bitmap_cg = {}
  IN /\ ScanActive(j) /\ ~Survives(j) /\ j \in Batch \cap Requeue
     /\ Scan(j, IF fini THEN BatchRequeueFini(j, s) ELSE s,
             IF fini THEN ExpediteRelease(s, nodes) ELSE nodes,
             TerminateMsgs(j, q))

ScanKills(j) ==
  /\ ScanActive(j) /\ ~Survives(j) /\ j \notin Batch \cap Requeue
  /\ Scan(j, EndJob(j, job[j], "NODE_FAIL", "signal", node),
          EndNodes(j, job[j], "NODE_FAIL", node), EndMsgs(j, job[j]))

\* _sync_bitmaps(node, 0), and the locks are released
NodeDownDone ==
  /\ down.node # NULL /\ down.todo = {}
  /\ node' = [node EXCEPT ![down.node] = SyncBitmaps(@, 0)]
  /\ down' = [node |-> NULL, todo |-> {}]
  /\ UNCHANGED <<job, msgs, procs>>

-----------------------------------------------------------------------------

JobStep(j) ==
  \/ \E ns \in SUBSET Nodes : Start(j, ns)
  \/ \E ok \in BOOLEAN : PrologSlurmctldDone(j, ok)
  \/ Cancel(j) \/ TimeLimit(j) \/ LaunchFailure(j)
  \/ \E code \in ExitCodes : JobComplete(j, code)
  \/ \E kind \in {"plain", "hold", "launch_failed"} : RequeueOp(j, kind)
  \/ Release(j) \/ Suspend(j) \/ Resume(j)
  \/ EpilogSlurmctldDone(j) \/ ReKillJob(j)

NodeStep(n) ==
  \/ NotResponding(n) \/ Responding(n) \/ Register(n)
  \/ Drain(n) \/ UndoDrain(n) \/ SetNodeDown(n)

Receive(m) ==
  \/ \E rc \in {0, 1} : SlurmdTerminateJob(m, rc)
  \/ \E again \in BOOLEAN : EpilogComplete(m, again)

ScanStep(j) ==
  ScanSkips(j) \/ ScanCompleting(j) \/ ScanExcises(j) \/ ScanRequeues(j) \/ ScanKills(j)

Next ==
  \/ \E j \in Jobs : JobStep(j) \/ ScanStep(j)
  \/ \E n \in Nodes : NodeStep(n)
  \/ \E m \in msgs : Receive(m) \/ LoseMessage(m)
  \/ NodeDownDone

Spec == Init /\ [][Next]_vars

\* The purge of old jobs runs for ever, scripts end, the scan of a node failure
\* ends, and a message that is sent again and again is delivered at last.
Delivered(type, j, n) ==
  \E m \in msgs : /\ m.type = type /\ m.job = j /\ m.node = n
                 /\ m.sluid = job[j].sluid
                 /\ Receive(m)

Fairness ==
  /\ \A j \in Jobs : /\ WF_vars(ReKillJob(j))
                     /\ SF_vars(EpilogSlurmctldDone(j))
                     /\ WF_vars(ScanStep(j))
  /\ \A j \in Jobs, n \in Nodes : /\ SF_vars(Delivered("TERMINATE", j, n))
                                 /\ SF_vars(Delivered("EPILOG", j, n))
  /\ WF_vars(NodeDownDone)

FairSpec == Spec /\ Fairness

-----------------------------------------------------------------------------
(* Safety.                                                                 *)

RunningOn(n)    == {j \in Jobs : job[j].state = "RUNNING" /\ OnNode(job[j], n)}
SuspendedOn(n)  == {j \in Jobs : job[j].state = "SUSPENDED" /\ OnNode(job[j], n)}
CompletingOn(n) == {j \in Jobs : Completing(job[j]) /\ n \in job[j].node_bitmap_cg}

\* run_job_cnt and sus_job_cnt of a node are the number of jobs that run, and
\* that are suspended, there: what make_node_alloc(), make_node_comp(),
\* make_node_idle() and the suspend code add and subtract never drifts.
RunCountExact ==
  \A n \in Nodes :
    /\ node[n].run_job_cnt = Cardinality(RunningOn(n))
    /\ node[n].sus_job_cnt = Cardinality(SuspendedOn(n))

\* comp_job_cnt is the number of jobs whose epilog the node still owes: a
\* replayed epilog message, a node failure between two messages or a re-sent
\* kill never makes make_node_idle() count one job twice or not at all.
CompCountExact ==
  \A n \in Nodes : node[n].comp_job_cnt = Cardinality(CompletingOn(n))

\* node_cnt of a completing job is the number of epilogs it waits for, and of
\* an active job the size of its allocation (cleanup_completing() relies on it).
NodeCntExact ==
  \A j \in Jobs :
    /\ Completing(job[j]) => job[j].node_cnt = Cardinality(job[j].node_bitmap_cg)
    /\ job[j].state \in Active => job[j].node_cnt = Cardinality(job[j].node_bitmap)

\* What every handler may rely on when it finds a job record.  An active job
\* holds nodes and node_cnt counts them; a completing job waits for the epilogs
\* of node_bitmap_cg, all nodes of its allocation, and node_cnt counts those;
\* any other job waits for nothing, neither a node nor the slurmctld epilog.
JobOK(r) ==
  IF r.state \in Active
  THEN /\ ~Completing(r)
       /\ r.node_bitmap \notin {NULL, {}} /\ r.node_cnt = Cardinality(r.node_bitmap)
       /\ r.node_bitmap_cg \in {NULL, {}}
  ELSE IF Completing(r)
  THEN /\ r.node_bitmap # NULL /\ r.node_bitmap_cg # NULL
       /\ r.node_bitmap_cg \subseteq r.node_bitmap
       /\ r.node_cnt = Cardinality(r.node_bitmap_cg)
  ELSE r.node_cnt = 0 /\ ~r.epilog_running /\ r.node_bitmap_cg \in {NULL, {}}

IInv == TypeOK /\ \A j \in Jobs : JobOK(job[j])

\* When set_node_down_ptr() has returned no job runs on, is suspended on or
\* waits for the failed node.
DownNodeUnused ==
  LocksFree => \A n \in Nodes : IsDown(node[n]) =>
                  RunningOn(n) \cup SuspendedOn(n) \cup CompletingOn(n) = {}

\* A node in service carries COMPLETING exactly while some job completes on it
\* and is ALLOCATED exactly while some job runs on it.
NodeStateAgrees ==
  LocksFree => \A n \in Nodes : ~IsDown(node[n]) =>
                  /\ node[n].completing <=> CompletingOn(n) # {}
                  /\ node[n].base = "ALLOCATED" <=> RunningOn(n) # {}

\* A job with exclusive nodes shares them with no other running job and with
\* no job that is still completing there.
ExclusiveUse ==
  \A n \in Nodes : \A j \in RunningOn(n) \cap Exclusive :
     RunningOn(n) \cup CompletingOn(n) = {j}

\* Processes of a job exist only on nodes slurmctld still holds for the same
\* incarnation: a node is released after slurmd has killed the job there.
NoStrayProcesses ==
  \A n \in Nodes : \A p \in procs[n] :
     /\ job[p[1]].sluid = p[2]
     /\ \/ p[1] \in CompletingOn(n)
        \/ job[p[1]].state \in Active /\ OnNode(job[p[1]], n)

\* A node that is DOWN, drained or silent is never offered to the scheduler.
AvailableIsHealthy ==
  \A n \in Nodes : node[n].avail =>
     ~IsDown(node[n]) /\ ~node[n].drain /\ ~node[n].no_respond

-----------------------------------------------------------------------------
(* What a step may never do, and what must happen.                         *)

\* A cancelled job stays cancelled unless somebody asks for a requeue: no exit
\* code that arrives late, lost node or last epilog brings it back to the queue
\* (the guard in job_hold_requeue()).
CancelFinal ==
  [][\A j \in Jobs : job[j].state = "CANCELLED" /\ job'[j].state # "CANCELLED"
                       => \E kind \in {"plain", "hold", "launch_failed"} : RequeueOp(j, kind)]_vars

\* "If a suspended job is requeued, it will be placed in a held state", by
\* whichever path it is requeued.
SuspendedRequeueHeld ==
  [][\A j \in Jobs : job[j].state = "SUSPENDED" /\ job'[j].state = "PENDING"
                       => job'[j].held]_vars

\* A completing job stops completing, whatever messages and nodes are lost,
\* because re_kill_job() repeats the request.
CompletionEnds ==
  \A j \in Jobs : Completing(job[j]) ~> ~Completing(job[j])

\* The COMPLETING state of a node is removed once the epilogs have ended
\* (make_node_idle()), although the messages that tell of them may be lost.
NodeCompletingEnds ==
  \A n \in Nodes : node[n].completing ~> ~node[n].completing

-----------------------------------------------------------------------------
(* Promises of the documentation that the code does not keep.              *)

\* sbatch --no-requeue: the job "should never be requeued under any
\* circumstances"; a later incarnation has a new SLUID.
NoRequeueRespected ==
  \A j \in Jobs : job[j].sluid > 1 => j \in Requeue

\* --exclusive=user: the allocation is not shared with jobs of other users.
UserExclusiveUse ==
  \A n \in Nodes : \A j \in RunningOn(n) \cap OwnerExclusive :
     \A k \in RunningOn(n) : User[k] = User[j]
=============================================================================
