------------------------------ MODULE Recovery ------------------------------
(***************************************************************************)
(* What survives a crash of slurmctld, and how the restarted controller    *)
(* and the slurmds come to agree again: the state save thread and the      *)
(* job_state file, the recovery of the jobs, the launch, abort and         *)
(* termination of batch jobs by slurmd, the report of slurmstepd, and the  *)
(* comparison of the job records with every node registration.  A job is   *)
(* a batch job on one node; nodes do not fail here.                        *)
(***************************************************************************)
EXTENDS Integers

CONSTANTS
  Nodes,
  NULL,        \* no record, no node, no file
  MaxJobId,    \* job ids are 1 .. MaxJobId - 1
  Cases        \* the bounds and settings of the instances that are explored

Ids    == 1 .. (MaxJobId - 1)
Bounds == {"submits", "starts", "crashes", "stops", "lost", "ticks"}

ASSUME RecoveryAssumption ==
  /\ MaxJobId \in Nat /\ MaxJobId > 1
  /\ \A c \in Cases : /\ DOMAIN c = Bounds \cup {"requeue", "nodes"}
                      /\ \A b \in Bounds : c[b] \in Nat
                      /\ c.requeue \in BOOLEAN /\ c.nodes \subseteq Nodes
  /\ NULL \notin Nodes

VARIABLES
  ctld,    \* up, stopping (an orderly shutdown), stopped, or dead (a crash)
  jobs,    \* job_list
  seq,     \* job_id_sequence
  save,    \* save_jobs, and where the state save thread is
  file,    \* the file job_state
  late,    \* jobs that agents have changed since the shutdown was asked for
  slurmd,  \* of each node: its slurmstepds, launch_state and credential cache
  net,     \* requests and reports under way
  clock,   \* the time in seconds
  sluids,  \* SLUIDs given out; they are never given again
  crashed, \* whether slurmctld has ever crashed
  case     \* what remains of the bounds

ctldVars == <<ctld, jobs, seq, save, file, late>>
vars == <<ctldVars, slurmd, net, clock, sluids, crashed, case>>

-----------------------------------------------------------------------------
(* Types.                                                                  *)

JobRecord ==
  [ state : {"PENDING", "RUNNING", "DONE"},
    cg    : BOOLEAN,             \* JOB_COMPLETING
    node  : Nodes \cup {NULL},   \* node_bitmap and batch_host
    start : Nat,                 \* start_time, and the ctime of the credential
    held  : BOOLEAN,
    quiet : BOOLEAN,             \* start_time, time_last_active, end_time are old
    sluid : Nat \ {0} ]

ASSUME NoRecordAssumption == NULL \notin JobRecord

Running(r)    == r # NULL /\ r.state = "RUNNING"
Completing(r) == r # NULL /\ r.cg

JobTable == [Ids -> JobRecord \cup {NULL}]

\* over: the script has ended and slurmstepd reports it
Stepd == [id : Ids, sluid : Nat, over : BOOLEAN]
Cred == [sluid : Nat, revoked : Nat, expiring : BOOLEAN]

KillTypes == {"ABORT", "TERMINATE"}
Message ==
       [type : {"LAUNCH"}, id : Ids, node : Nodes, sluid : Nat, ctime : Nat,
        dead : BOOLEAN]          \* dead: no agent waits for the answer
  \cup [type : KillTypes, id : Ids, node : Nodes, sluid : Nat, time : Nat,
        start : Nat, begun : BOOLEAN]    \* begun: slurmd waits for the steps
  \cup [type : {"REFUSED", "REQUEUE", "EPILOG"}, node : Nodes, sluid : Nat]
  \cup [type : {"REGISTRATION"}, node : Nodes, steps : SUBSET (Ids \X Nat)]

TypeOK ==
  /\ ctld \in {"up", "stopping", "stopped", "dead"}
  /\ jobs \in JobTable
  /\ \A i \in Ids : Running(jobs[i]) \/ Completing(jobs[i]) => jobs[i].node # NULL
  /\ seq \in 1 .. MaxJobId
  /\ save.jobs \in BOOLEAN /\ save.at \in {"idle", "header", "moved"}
  /\ save.buffer = NULL \/ save.buffer.seq \in 1 .. MaxJobId
  /\ file = NULL \/ (file.seq \in 1 .. MaxJobId /\ file.jobs \in JobTable)
  /\ late \subseteq Ids
  /\ \A n \in Nodes : /\ slurmd[n].steps \subseteq Stepd
                      /\ slurmd[n].active \subseteq Ids
                      /\ slurmd[n].creds \subseteq Cred
  /\ net \subseteq Message
  /\ clock \in Nat /\ sluids \in Nat /\ crashed \in BOOLEAN

-----------------------------------------------------------------------------
(* The state save thread.                                                  *)

NoSave == [jobs |-> FALSE, at |-> "idle", buffer |-> NULL]

\* mutant: a save that is under way is taken for the one that is asked for
ScheduleJobSave_Merges == [save EXCEPT !.jobs = (save.at = "idle")]

\* schedule_job_save()
ScheduleJobSave == [save EXCEPT !.jobs = TRUE]

\* job_mgr_dump_job_state() does not write time_last_active
Saved(table) ==
  [i \in Ids |-> IF table[i] = NULL THEN NULL
                 ELSE [table[i] EXCEPT !.quiet = FALSE]]

SaveStep(buffer, at) ==
  /\ save' = [save EXCEPT !.at = at, !.buffer = buffer]
  /\ UNCHANGED <<ctld, jobs, seq, late, slurmd, net, clock, crashed, sluids, case>>

\* Of a run, only the saves that a later restart can read are followed: after
\* the last crash or shutdown that the bounds allow, the file is never read.
ReadAgain == case.crashes + case.stops > 0 \/ ctld = "stopping"

\* slurmctld_state_save() takes the work, and dump_all_job_state() packs the
\* header before it waits for the job lock
SaveBegins ==
  /\ ctld \in {"up", "stopping"}
  /\ save.jobs /\ save.at = "idle" /\ ReadAgain
  /\ save' = [jobs |-> FALSE, at |-> "header", buffer |-> [seq |-> seq]]
  /\ UNCHANGED <<ctld, jobs, seq, late, file, slurmd, net, clock, crashed, sluids, case>>

\* the job records are packed under the job read lock; then, in
\* save_buf_to_state(), job_state.new is written, job_state becomes
\* job_state.old, ...
SaveMovesOld ==
  /\ save.at = "header"
  /\ SaveStep([seq |-> save.buffer.seq, jobs |-> Saved(jobs)], "moved")
  /\ file' = NULL

\* ... and job_state.new becomes job_state
SaveMovesNew ==
  /\ save.at = "moved"
  /\ SaveStep(NULL, "idle")
  /\ file' = save.buffer

\* save_all_state() every PERIODIC_CHECKPOINT seconds; one that would write
\* what the file holds is left out
Checkpoint ==
  /\ ctld = "up" /\ ~save.jobs /\ save.at = "idle" /\ ReadAgain
  /\ file # [seq |-> seq, jobs |-> Saved(jobs)]
  /\ save' = ScheduleJobSave
  /\ UNCHANGED <<ctld, jobs, seq, file, late, slurmd, net, clock, crashed, sluids, case>>

-----------------------------------------------------------------------------
(* The job records and the handlers of slurmctld.                          *)

Find(s) == {i \in Ids : jobs[i] # NULL /\ jobs[i].sluid = s}

NewJob(s) ==
  [ state |-> "PENDING", cg |-> FALSE, node |-> NULL, start |-> 0,
    held |-> FALSE, quiet |-> FALSE, sluid |-> s ]

\* create_kill_job_msg()
Kill(type, i, r, n) ==
  [type |-> type, id |-> i, node |-> n, sluid |-> r.sluid, time |-> clock,
   start |-> r.start, begun |-> FALSE]

\* mutant: the node is taken from the job before the epilog has run
Ended_FreesNode(r, state) ==
  [r EXCEPT !.state = state, !.cg = TRUE, !.quiet = FALSE, !.node = NULL]

\* a state change that calls deallocate_nodes()
Ended(r, state) == [r EXCEPT !.state = state, !.cg = TRUE, !.quiet = FALSE]

\* _job_complete()
JobComplete(r, requeue) ==
  IF Running(r) THEN Ended(r, IF requeue THEN "PENDING" ELSE "DONE") ELSE r

\* the TERMINATE_JOB of deallocate_nodes() if the job runs
Deallocate(i) == IF Running(jobs[i])
                 THEN {Kill("TERMINATE", i, jobs[i], jobs[i].node)} ELSE {}

\* batch_requeue_fini(): the job waits as a new incarnation
BatchRequeueFini(r) == [NewJob(sluids + 1) EXCEPT !.held = r.held]

\* ... and the SLUIDs that this takes for a set of jobs found by SLUID: one job at most
NewSluids(S) == IF S = {} THEN 0 ELSE 1

\* a handler that turns job_list into table, with or without a save
Handle(table, saves) ==
  /\ jobs' = table
  /\ save' = IF saves /\ ReadAgain THEN ScheduleJobSave ELSE save
  /\ late' = IF ctld = "stopping" THEN late \cup {i \in Ids : table[i] # jobs[i]}
             ELSE late
  /\ UNCHANGED <<ctld, seq, file, clock, crashed>>

Spend(b) == case[b] > 0 /\ case' = [case EXCEPT ![b] = @ - 1]

\* the ids get_next_job_id() tries, in its order
Candidate(k) ==
  LET first == IF seq >= MaxJobId THEN 1 ELSE seq
  IN 1 + ((first - 1 + k) % (MaxJobId - 1))

\* a batch job is submitted: get_next_job_id(), _set_job_id()
Submit ==
  /\ ctld = "up" /\ Spend("submits")
  /\ \E k \in 0 .. (MaxJobId - 2) :
       /\ jobs[Candidate(k)] = NULL
       /\ \A l \in 0 .. (k - 1) : jobs[Candidate(l)] # NULL
       /\ jobs' = [jobs EXCEPT ![Candidate(k)] = NewJob(sluids + 1)]
       /\ seq' = Candidate(k) + 1
  /\ sluids' = sluids + 1
  /\ save' = ScheduleJobSave
  /\ UNCHANGED <<ctld, file, late, slurmd, net, clock, crashed>>

Free(n) == \A i \in Ids : ~((Running(jobs[i]) \/ Completing(jobs[i])) /\ jobs[i].node = n)

\* _schedule() with select_nodes() and launch_job()
Start(i, n) ==
  LET r == jobs[i]
  IN /\ ctld = "up"
     /\ r # NULL /\ r.state = "PENDING" /\ ~r.cg /\ ~r.held
     /\ n \in case.nodes /\ Free(n)
     /\ Handle([jobs EXCEPT ![i] = [r EXCEPT !.state = "RUNNING", !.node = n,
                                             !.start = clock, !.quiet = FALSE]], TRUE)
     /\ net' = net \cup {[type |-> "LAUNCH", id |-> i, node |-> n, sluid |-> r.sluid,
                          ctime |-> clock, dead |-> FALSE]}
     /\ Spend("starts")
     /\ UNCHANGED <<slurmd, sluids>>

\* scontrol release
Release(i) ==
  /\ ctld = "up"
  /\ jobs[i] # NULL /\ jobs[i].state = "PENDING" /\ jobs[i].held
  /\ Handle([jobs EXCEPT ![i].held = FALSE], TRUE)
  /\ UNCHANGED <<slurmd, net, sluids, case>>

\* slurmstepd's report arrives: _slurm_rpc_complete_batch_script().  again: the
\* answer is lost and slurmstepd repeats the report.
CompleteBatchScript(n, p, again) ==
  LET own == {i \in Find(p.sluid) : jobs[i].node \in {NULL, n}}
  IN /\ ctld = "up"
     /\ p \in slurmd[n].steps /\ p.over
     /\ Handle([i \in Ids |-> IF i \in own THEN JobComplete(jobs[i], FALSE) ELSE jobs[i]],
               \E i \in own : jobs[i].state # "DONE")
     /\ net' = net \cup UNION {Deallocate(i) : i \in own}
     /\ IF again THEN Spend("lost") /\ UNCHANGED slurmd
        ELSE /\ slurmd' = [slurmd EXCEPT ![n].steps = @ \ {p}]
             /\ UNCHANGED case
     /\ UNCHANGED sluids

\* MESSAGE_EPILOG_COMPLETE, or the agent's answer that the job was over already
EpilogComplete(m) ==
  LET hit  == {i \in Find(m.sluid) : jobs[i].cg /\ jobs[i].node = m.node}
      fini == {i \in hit : jobs[i].state = "PENDING"}
  IN /\ ctld \in {"up", "stopping"}
     /\ m.type = "EPILOG"
     /\ net' = net \ {m}
     /\ Handle([i \in Ids |-> CASE i \in fini -> BatchRequeueFini(jobs[i])
                                [] i \in hit \ fini -> [jobs[i] EXCEPT !.cg = FALSE]
                                [] OTHER -> jobs[i]],
               hit # {} /\ ctld = "up")
     /\ sluids' = sluids + NewSluids(fini)
     /\ UNCHANGED <<slurmd, case>>

\* REQUEST_JOB_REQUEUE with JOB_LAUNCH_FAILED: _job_requeue_op(), and slurmd's
\* REQUEST_KILL_JOB if the job may not be requeued
LaunchFailed(r) ==
  CASE ~case.requeue -> IF Running(r) THEN Ended(r, "DONE") ELSE [r EXCEPT !.state = "DONE"]
    [] case.requeue /\ r.state = "PENDING" -> r
    [] case.requeue /\ Running(r) -> [Ended(r, "PENDING") EXCEPT !.held = TRUE]
    [] case.requeue /\ r.state = "DONE" /\ r.cg ->
         [r EXCEPT !.state = "PENDING", !.held = TRUE]
    [] OTHER -> BatchRequeueFini([r EXCEPT !.held = TRUE])

JobRequeue(m) ==
  LET hit  == Find(m.sluid)
      fini == {i \in hit : case.requeue /\ jobs[i].state = "DONE" /\ ~jobs[i].cg}
  IN /\ ctld = "up"
     /\ m.type = "REQUEUE"
     /\ Handle([i \in Ids |-> IF i \in hit THEN LaunchFailed(jobs[i]) ELSE jobs[i]], hit # {})
     /\ net' = (net \ {m}) \cup UNION {Deallocate(i) : i \in hit}
     /\ sluids' = sluids + NewSluids(fini)
     /\ UNCHANGED <<slurmd, case>>

\* the agent that launches a batch job ends it: by the answer of slurmd, or,
\* when there is none, with a requeue.  The request itself may still arrive.
AgentEnds(m, requeue, left) ==
  LET hit == Find(m.sluid)
  IN /\ ctld \in {"up", "stopping"}
     /\ Handle([i \in Ids |-> IF i \in hit THEN JobComplete(jobs[i], requeue)
                              ELSE jobs[i]], FALSE)
     /\ net' = (net \ {m}) \cup left \cup UNION {Deallocate(i) : i \in hit}
     /\ UNCHANGED <<slurmd, sluids>>

LaunchRefused(m) ==
  m.type = "REFUSED" /\ AgentEnds(m, FALSE, {}) /\ UNCHANGED case

NoResponse(m) ==
  /\ m.type = "LAUNCH" /\ ~m.dead /\ Spend("lost")
  /\ \E left \in {{}, {[m EXCEPT !.dead = TRUE]}} : AgentEnds(m, TRUE, left)

-----------------------------------------------------------------------------
(* Registration: what slurmd runs is compared with the job records.        *)

\* slurmd answers REQUEST_NODE_REGISTRATION_STATUS with its slurmstepds; it is
\* left out where neither slurmd nor slurmctld has a job on the node
SlurmdRegisters(n) ==
  /\ ctld = "up"
  /\ slurmd[n].steps # {} \/ \E i \in Ids : Running(jobs[i]) /\ jobs[i].node = n
  /\ \A m \in net : ~(m.type = "REGISTRATION" /\ m.node = n)
  /\ net' = net \cup {[type |-> "REGISTRATION", node |-> n,
                       steps |-> {<<p.id, p.sluid>> : p \in slurmd[n].steps}]}
  /\ UNCHANGED <<ctldVars, slurmd, clock, crashed, sluids, case>>

\* mutant: the steps of a job that is pending are let be
Answer_LetsPendingRun(n, id, s) ==
  IF Find(s) = {}
  THEN {[type |-> "ABORT", id |-> id, node |-> n, sluid |-> s, time |-> clock,
         start |-> 0, begun |-> FALSE]}
  ELSE {Kill(IF jobs[i].state = "RUNNING" THEN "ABORT" ELSE "TERMINATE", i, jobs[i], n) :
          i \in {j \in Find(s) : /\ ~(Running(jobs[j]) /\ jobs[j].node = n)
                                 /\ jobs[j].state # "PENDING" \/ jobs[j].cg
                                 /\ jobs[j].state = "DONE" /\ ~jobs[j].cg => jobs[j].quiet}}

\* the request validate_jobs_on_node() sends for a step the node lists
Answer(n, id, s) ==
  IF Find(s) = {}
  THEN {[type |-> "ABORT", id |-> id, node |-> n, sluid |-> s, time |-> clock,
         start |-> 0, begun |-> FALSE]}
  ELSE LET i == CHOOSE j \in Find(s) : TRUE
           r == jobs[i]
       IN CASE Running(r) -> IF r.node = n THEN {} ELSE {Kill("ABORT", i, r, n)}
            [] r.cg -> {Kill("TERMINATE", i, r, n)}
            [] r.state = "PENDING" /\ ~r.cg -> {Kill("ABORT", i, r, n)}
            [] OTHER -> IF r.quiet THEN {Kill("TERMINATE", i, r, n)} ELSE {}

\* mutant: the job is given no time to start
Missing_NoGrace(n, listed) ==
  {i \in Ids : /\ Running(jobs[i]) /\ jobs[i].node = n
               /\ jobs[i].sluid \notin listed}

\* mutant: a node that lists nothing is not looked at
Missing_IfAny(n, listed) ==
  {i \in Ids : /\ Running(jobs[i]) /\ jobs[i].node = n
               /\ jobs[i].quiet /\ jobs[i].sluid \notin listed /\ listed # {}}

\* _foreach_purge_missing_jobs(): BatchStartTimeout has passed since the job
\* was started, and since a registration last listed it
Missing(n, listed) ==
  {i \in Ids : /\ Running(jobs[i]) /\ jobs[i].node = n
               /\ jobs[i].quiet /\ jobs[i].sluid \notin listed}

\* validate_jobs_on_node()
Registration(m) ==
  LET listed == {x[2] : x \in m.steps}
      gone   == Missing(m.node, listed)
      seen(r) == Running(r) /\ r.node = m.node /\ r.sluid \in listed
  IN /\ ctld = "up"
     /\ m.type = "REGISTRATION"
     /\ Handle([i \in Ids |-> CASE i \in gone -> JobComplete(jobs[i], case.requeue)
                                [] seen(jobs[i]) -> [jobs[i] EXCEPT !.quiet = FALSE]
                                [] OTHER -> jobs[i]], FALSE)
     /\ net' = (net \ {m}) \cup (UNION {Answer(m.node, x[1], x[2]) : x \in m.steps})
                           \cup UNION {Deallocate(i) : i \in gone}
     /\ UNCHANGED <<slurmd, sluids, case>>

\* messages under way, not those slurmd is working on
Losable == {m \in net : m.type \in KillTypes => ~m.begun}

\* purge_old_job() sends the kill of a completing job again: re_kill_job()
ReKillJob(i) ==
  /\ ctld = "up"
  /\ Completing(jobs[i]) /\ jobs[i].quiet
  /\ Handle([jobs EXCEPT ![i].quiet = FALSE], FALSE)
  /\ net' = net \cup {Kill("TERMINATE", i, jobs[i], jobs[i].node)}
  /\ UNCHANGED <<slurmd, sluids, case>>

\* purge_old_job() removes a job MinJobAge after its end; the end has been
\* saved for long, since SAVE_MAX_WAIT is a few seconds
PurgeOldJob(i) ==
  LET r == jobs[i]
  IN /\ ctld = "up"
     /\ r # NULL /\ r.state = "DONE" /\ ~r.cg /\ r.quiet
     /\ ReadAgain => /\ file # NULL /\ file.jobs[i] # NULL
                     /\ file.jobs[i].sluid = r.sluid /\ file.jobs[i].state = "DONE"
     /\ Handle([jobs EXCEPT ![i] = NULL], FALSE)
     /\ UNCHANGED <<slurmd, net, sluids, case>>

\* Time passes: BatchStartTimeout with MsgTimeout for a running job, KillWait
\* with twice MsgTimeout for a completing one, MsgTimeout for one that is over.
\* No request or report about the job is under way as long as that.
TimePasses(i) ==
  LET r == jobs[i]
      about(m) == IF m.type = "REGISTRATION" THEN m.node = r.node
                  ELSE m.sluid = r.sluid
  IN /\ ctld = "up"
     /\ r # NULL /\ ~r.quiet /\ (r.state # "PENDING" \/ r.cg)
     /\ \A m \in Losable : ~about(m)
     /\ Handle([jobs EXCEPT ![i].quiet = TRUE], FALSE)
     /\ UNCHANGED <<slurmd, net, sluids, case>>

-----------------------------------------------------------------------------
(* slurmd and slurmstepd.                                                  *)

Report(type, m) == [type |-> type, node |-> m.node, sluid |-> m.sluid]

SlurmdStep(n, d, msgs) ==
  /\ slurmd' = [slurmd EXCEPT ![n] = d]
  /\ net' = msgs
  /\ UNCHANGED <<ctldVars, clock, crashed, sluids, case>>

CredOf(d, s) == {c \in d.creds : c.sluid = s}

\* mutant: a credential of the second of the revocation counts as newer
Reissued_SameSecond(d, s, ctime) ==
  [d EXCEPT !.creds = @ \ {c \in CredOf(d, s) : c.revoked # 0 /\ ctime >= c.revoked}]

\* cred_handle_reissue() forgets a revocation that is older than the credential
Reissued(d, s, ctime) ==
  [d EXCEPT !.creds = @ \ {c \in CredOf(d, s) : c.revoked # 0 /\ ctime > c.revoked}]

\* cred_insert_job(), _forkexec_slurmstepd(), launch_complete_add()
Launched(d, m) ==
  [ steps  |-> d.steps \cup {[id |-> m.id, sluid |-> m.sluid, over |-> FALSE]},
    active |-> d.active \cup {m.id},
    creds  |-> IF CredOf(d, m.sluid) # {} THEN d.creds
               ELSE d.creds \cup {[sluid |-> m.sluid, revoked |-> 0, expiring |-> FALSE]} ]

\* _rpc_batch_job(), when its answer can be sent; that does not mean that
\* somebody still waits for it
LaunchBatchJob(m) ==
  LET n == m.node
      d == Reissued(slurmd[n], m.sluid, m.ctime)
      rest == net \ {m}
  IN /\ m.type = "LAUNCH"
     /\ IF m.id \in slurmd[n].active
        THEN SlurmdStep(n, slurmd[n], rest \cup {Report("REQUEUE", m)})
        ELSE IF \E c \in CredOf(d, m.sluid) : c.revoked # 0
             THEN SlurmdStep(n, d, IF m.dead THEN rest
                                   ELSE rest \cup {Report("REFUSED", m)})
             ELSE SlurmdStep(n, Launched(d, m), rest)

\* _rpc_batch_job(), when slurmctld is gone and the answer cannot be sent
LaunchUnanswered(m) ==
  LET n == m.node
  IN /\ m.type = "LAUNCH" /\ m.dead
     /\ m.id \notin slurmd[n].active
     /\ SlurmdStep(n, Reissued(slurmd[n], m.sluid, m.ctime),
                   (net \ {m}) \cup {Report("REQUEUE", m)})

StepsOf(n, id) == {p \in slurmd[n].steps : p.id = id}

\* cred_revoke()
Revoked(d, m) ==
  LET old == CredOf(d, m.sluid)
      new == [sluid |-> m.sluid, revoked |-> m.time, expiring |-> FALSE]
      kept(c) == IF c.revoked # 0
                 THEN IF m.start # 0 /\ c.revoked < m.start THEN new ELSE c
                 ELSE [c EXCEPT !.revoked = m.time]
  IN [d EXCEPT !.creds = IF old = {} THEN @ \cup {new}
                         ELSE (@ \ old) \cup {kept(c) : c \in old}]

\* cred_begin_expiration() and launch_complete_rm(), once for each job
Cleaned(d, m) ==
  IF \E c \in CredOf(d, m.sluid) : c.expiring THEN d
  ELSE [d EXCEPT !.active = @ \ {m.id},
                 !.creds = {IF c.sluid = m.sluid THEN [c EXCEPT !.expiring = TRUE] ELSE c
                              : c \in @}]

\* the scripts of the job id are killed; their slurmstepds report it
Killed(d, id) ==
  [d EXCEPT !.steps = {IF p.id = id THEN [p EXCEPT !.over = TRUE] ELSE p : p \in @}]

\* _rpc_abort_job(): the slurmstepds of the job id end without a report
AbortBegins(m) ==
  LET n == m.node
      d == [Revoked(slurmd[n], m) EXCEPT !.steps = {p \in @ : p.id = m.id => p.over}]
  IN /\ m.type = "ABORT" /\ ~m.begun
     /\ IF StepsOf(n, m.id) = {}
        THEN SlurmdStep(n, Cleaned(d, m), net \ {m})
        ELSE SlurmdStep(n, d, (net \ {m}) \cup {[m EXCEPT !.begun = TRUE]})

\* _rpc_terminate_job().  Of two requests for one job id the second returns at
\* once: _waiter_init().
TerminateBegins(m) ==
  LET n == m.node
      waiter == \E w \in net : /\ w.type = "TERMINATE" /\ w.begun
                               /\ w.node = n /\ w.id = m.id
  IN /\ m.type = "TERMINATE" /\ ~m.begun
     /\ IF waiter
        THEN SlurmdStep(n, slurmd[n], net \ {m})
        ELSE SlurmdStep(n, Killed(Revoked(slurmd[n], m), m.id),
                        (net \ {m}) \cup {[m EXCEPT !.begun = TRUE]})

\* pause_for_job_completion(): as long as there are slurmstepds of the job id
\* they are killed, also those that were started in the meantime
KillAgain(m) ==
  /\ m.type \in KillTypes /\ m.begun
  /\ \E p \in StepsOf(m.node, m.id) : ~p.over
  /\ SlurmdStep(m.node, Killed(slurmd[m.node], m.id), net)

\* mutant: what was reported once is not reported again
KillEnds_OnlyOnce(m) ==
  LET n == m.node
      again == \E c \in CredOf(slurmd[n], m.sluid) : c.expiring
  IN /\ m.type \in KillTypes /\ m.begun
     /\ StepsOf(n, m.id) = {}
     /\ SlurmdStep(n, Cleaned(slurmd[n], m),
                   (net \ {m}) \cup IF m.type = "ABORT" \/ again THEN {}
                                    ELSE {Report("EPILOG", m)})

\* the slurmstepds are gone: the epilog is run, and reported
KillEnds(m) ==
  LET n == m.node
  IN /\ m.type \in KillTypes /\ m.begun
     /\ StepsOf(n, m.id) = {}
     /\ SlurmdStep(n, Cleaned(slurmd[n], m),
                   (net \ {m}) \cup IF m.type = "ABORT" THEN {}
                                    ELSE {Report("EPILOG", m)})

\* the batch script comes to its end
ScriptEnds(n, p) ==
  /\ p \in slurmd[n].steps /\ ~p.over
  /\ SlurmdStep(n, [slurmd[n] EXCEPT !.steps = (@ \ {p}) \cup {[p EXCEPT !.over = TRUE]}],
                net)

-----------------------------------------------------------------------------
(* Shutdown, crash and restart; loss and time.                             *)

\* SIGTERM: no more RPCs, save_all_state()
Shutdown ==
  /\ ctld = "up" /\ Spend("stops")
  /\ ctld' = "stopping" /\ late' = {}
  /\ save' = ScheduleJobSave
  /\ UNCHANGED <<jobs, seq, file, slurmd, net, clock, crashed, sluids>>

\* What is left of the messages when slurmctld is gone: requests in the agents'
\* queues and reports that were being sent are lost, all or some of them.
Remains(lost) ==
  {IF m.type = "LAUNCH" THEN [m EXCEPT !.dead = TRUE] ELSE m :
     m \in {w \in net \ lost : w.type # "REFUSED"}}

Gone(state) ==
  /\ ctld' = state /\ crashed' = (crashed \/ state = "dead")
  /\ \E lost \in SUBSET Losable : net' = Remains(lost)
  /\ UNCHANGED <<jobs, seq, file, late, slurmd, clock, sluids>>

\* shutdown_state_save(): the thread ends when there is nothing more to save
ShutdownEnds ==
  /\ ctld = "stopping"
  /\ ~save.jobs /\ save.at = "idle"
  /\ Gone("stopped")
  /\ UNCHANGED <<save, case>>

Crash ==
  /\ ctld \in {"up", "stopping"} /\ Spend("crashes")
  /\ Gone("dead")
  /\ save' = NoSave

\* _sync_nodes_to_comp_job(): jobs that were completing are killed again
SyncNodesToCompJob(table) ==
  {Kill("TERMINATE", i, table[i], table[i].node) : i \in {j \in Ids : Completing(table[j])}}

\* load_all_job_state().  Without the file slurmctld refuses to start.
Restart ==
  /\ ctld \in {"stopped", "dead"}
  /\ file # NULL
  /\ ctld' = "up" /\ late' = {}
  /\ jobs' = file.jobs /\ seq' = file.seq
  /\ save' = NoSave
  /\ net' = net \cup SyncNodesToCompJob(file.jobs)
  /\ UNCHANGED <<file, slurmd, clock, crashed, sluids, case>>

LoseMessage(m) ==
  /\ m \in Losable /\ m.type \notin {"LAUNCH", "REFUSED"}
  /\ Spend("lost")
  /\ net' = net \ {m}
  /\ UNCHANGED <<ctldVars, slurmd, clock, crashed, sluids>>

Tick ==
  /\ Spend("ticks")
  /\ clock' = clock + 1
  /\ UNCHANGED <<ctldVars, slurmd, net, sluids, crashed>>

-----------------------------------------------------------------------------

Init ==
  /\ ctld = "up" /\ late = {}
  /\ jobs = [i \in Ids |-> NULL] /\ seq = 1
  /\ save = NoSave /\ file = [seq |-> 1, jobs |-> jobs]
  /\ slurmd = [n \in Nodes |-> [steps |-> {}, active |-> {}, creds |-> {}]]
  /\ net = {} /\ clock = 1 /\ sluids = 0 /\ crashed = FALSE
  /\ case \in Cases

Saver == SaveBegins \/ SaveMovesOld \/ SaveMovesNew

CtldReceives(m) ==
  EpilogComplete(m) \/ JobRequeue(m) \/ LaunchRefused(m) \/ Registration(m)
SlurmdReceives(m) == LaunchBatchJob(m) \/ AbortBegins(m) \/ TerminateBegins(m)
SlurmdKills(m) == KillAgain(m) \/ KillEnds(m)

Next ==
  \/ Submit \/ Saver \/ Checkpoint \/ Shutdown \/ ShutdownEnds \/ Crash \/ Restart \/ Tick
  \/ \E i \in Ids : \/ \E n \in Nodes : Start(i, n)
                    \/ Release(i) \/ ReKillJob(i) \/ PurgeOldJob(i) \/ TimePasses(i)
  \/ \E n \in Nodes : \/ SlurmdRegisters(n)
                      \/ \E p \in slurmd[n].steps :
                           \/ ScriptEnds(n, p)
                           \/ \E again \in BOOLEAN : CompleteBatchScript(n, p, again)
  \/ \E m \in net : \/ CtldReceives(m) \/ SlurmdReceives(m) \/ SlurmdKills(m)
                    \/ LaunchUnanswered(m) \/ NoResponse(m) \/ LoseMessage(m)

Spec == Init /\ [][Next]_vars

\* Every thread and every slurmd goes on, and slurmctld is started again.
\* Scripts need not end, and jobs need not be started or released.
Fairness ==
  /\ WF_vars(Saver \/ ShutdownEnds \/ Restart)
  /\ WF_vars(\E i \in Ids : ReKillJob(i))
  /\ SF_vars(\E i \in Ids : TimePasses(i))
  /\ WF_vars(\E n \in Nodes : \E p \in slurmd[n].steps : CompleteBatchScript(n, p, FALSE))
  /\ WF_vars(\E m \in net : SlurmdKills(m))
  /\ WF_vars(\E m \in net : \/ EpilogComplete(m) \/ JobRequeue(m)
                            \/ LaunchRefused(m) \/ LaunchBatchJob(m))
  /\ \A n \in Nodes :
       /\ WF_vars(SlurmdRegisters(n))
       /\ WF_vars(\E m \in net : m.node = n /\ Registration(m))
       /\ WF_vars(\E m \in net : m.node = n /\ AbortBegins(m))
       /\ WF_vars(\E m \in net : m.node = n /\ TerminateBegins(m))

FairSpec == Spec /\ Fairness

-----------------------------------------------------------------------------
(* Properties.                                                             *)

\* An orderly shutdown loses nothing: when slurmctld has stopped, job_state
\* holds every job as it is in memory, except for the jobs that agents have
\* changed during the shutdown, for which no save is asked.
CleanStopSaves ==
  [][ctld = "stopping" /\ ctld' = "stopped" =>
       /\ file.seq = seq
       /\ \A i \in Ids \ late : file.jobs[i] = Saved(jobs)[i]]_vars

\* validate_jobs_on_node() never takes for missing a job whose slurmstepd is
\* there: no registration under way would end a job that its node runs.
MissingIsGone ==
  \A m \in net : m.type = "REGISTRATION" =>
    \A i \in Missing(m.node, {x[2] : x \in m.steps}) :
      \A p \in slurmd[m.node].steps : p.sluid # jobs[i].sluid

\* As long as slurmctld has not crashed, a job is never run twice at a time,
\* not even when a launch request arrives after its agent has given up and the
\* job has been requeued and started again elsewhere: slurmd refuses a request
\* for a job that was revoked.
NeverTwice ==
  ~crashed => \A k, n \in Nodes : \A p \in slurmd[k].steps, q \in slurmd[n].steps :
                p.id = q.id /\ ~p.over /\ ~q.over => k = n /\ p = q

\* slurmctld does not start again: the file was being replaced
Lost == ctld = "dead" /\ file = NULL

Stray(n) ==
  \E p \in slurmd[n].steps :
    \A i \in Find(p.sluid) : ~(Running(jobs[i]) /\ jobs[i].node = n)

Ghost(i) ==
  /\ Running(jobs[i])
  /\ \A p \in slurmd[jobs[i].node].steps : p.sluid # jobs[i].sluid
  /\ \A m \in net : ~(m.type = "LAUNCH" /\ m.sluid = jobs[i].sluid)

\* A slurmstepd of a job that slurmctld does not have running on that node
\* (a start that was not saved before a crash, a late launch) is ended.
StraysEnd == \A n \in Nodes : Stray(n) ~> (~Stray(n) \/ Lost)

\* A job that slurmctld has running though its node does not run it (the
\* launch or the end was lost) is found by the registrations and ended.
GhostsEnd == \A i \in Ids : Ghost(i) ~> (~Ghost(i) \/ Lost)

\* A completing job is finished, whatever requests and reports are lost.
CompletingEnds == \A i \in Ids : Completing(jobs[i]) ~> (~Completing(jobs[i]) \/ Lost)

=============================================================================
