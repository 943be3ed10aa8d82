-------------------------- MODULE JobNodeUseProofs ---------------------------
(***************************************************************************)
(* The state of a node, its bits in idle_node_bitmap and                   *)
(* share_node_bitmap, and the jobs that use it: the flags and the base     *)
(* state agree with the counters, a shareable node runs no exclusive job   *)
(* (UseInv), and so no exclusive job shares a node.                        *)
(***************************************************************************)
EXTENDS JobNodeProofs

-----------------------------------------------------------------------------
(* The invariant.                                                          *)

UseInv ==
  /\ \A n \in Nodes : AgreeOK(node[n])
  /\ "suspend" \notin Inputs =>
       /\ \A j \in Jobs : job[j].state # "SUSPENDED"
       /\ ExclusiveUse
       /\ \A n \in Nodes, j \in Jobs \cap Exclusive :
            ~IsDown(node[n]) /\ node[n].share => ~RunsOn(job[j], n)

\* What a step does to every node
NodesFit(ns) == \A n \in Nodes : Fits(node[n], ns[n])

\* and one of job j to every other job
OthersKept(j) == \A i \in Jobs \ {j} : job'[i] = job[i]

\* The jobs of a node, in the next state
LEMMA OnNodeSetsNext ==
  ASSUME FullInv', NEW n \in Nodes
  PROVE  /\ RunningOn(n)' = {i \in Jobs : RunsOn(job'[i], n)}
         /\ CompletingOn(n)' = {i \in Jobs : n \in CgSet(job'[i])}
         /\ node'[n].run_job_cnt = Cardinality({i \in Jobs : RunsOn(job'[i], n)})
  <1>1. RunningOn(n)' = {i \in Jobs : RunsOn(job'[i], n)}
    BY Zenon DEF RunningOn, RunsOn, OnNode
  <1>2. ASSUME NEW i \in Jobs
        PROVE  "COMPLETING" \in job'[i].flags /\ n \in job'[i].node_bitmap_cg <=> n \in CgSet(job'[i])
    <2>1. JobOK(job'[i])
      BY Zenon DEF FullInv, IInv, JobOK, Completing
    <2> QED
      BY Zenon, <2>1 DEF JobOK, CgSet, Completing
  <1>3. CompletingOn(n)' = {i \in Jobs : n \in CgSet(job'[i])}
    BY Zenon, <1>2 DEF CompletingOn, Completing
  <1>4. node'[n].run_job_cnt = Cardinality(RunningOn(n)')
    BY Zenon DEF FullInv, RunCountExact
  <1> QED
    BY Zenon, <1>1, <1>3, <1>4

\* A node whose run_job_cnt is 0 runs nothing, in this state and the next, and
\* one whose comp_job_cnt is 0 waits for nothing.
LEMMA NothingRuns ==
  ASSUME Counting, FullInv, NEW n \in Nodes, NEW i \in Jobs
  PROVE  /\ node[n].run_job_cnt = 0 => ~RunsOn(job[i], n)
         /\ Expedited = {} /\ node[n].comp_job_cnt = 0 => n \notin CgSet(job[i])
         /\ FullInv' /\ node'[n].run_job_cnt = 0 => ~RunsOn(job'[i], n)
  <1> DEFINE R == {k \in Jobs : RunsOn(job[k], n)}
             C == {k \in Jobs : n \in CgSet(job[k])}
             Q == {k \in Jobs : RunsOn(job'[k], n)}
  <1>1. RunningOn(n) = R /\ CompletingOn(n) = C
    BY Zenon, OnNodeSets DEF FullInv, IInv
  <1>2. /\ node[n].run_job_cnt = Cardinality(R)
        /\ Expedited = {} => node[n].comp_job_cnt = Cardinality(C)
        /\ FullInv' => node'[n].run_job_cnt = Cardinality(Q)
    BY Zenon, <1>1, OnNodeSetsNext DEF FullInv, RunCountExact, CompCountExact
  <1>3. R \in SUBSET Jobs /\ C \in SUBSET Jobs /\ Q \in SUBSET Jobs
    BY Zenon
  <1>4. /\ Cardinality(R) = 0 => R = {}
        /\ Cardinality(C) = 0 => C = {}
        /\ Cardinality(Q) = 0 => Q = {}
    BY Zenon, <1>3 DEF Counting
  <1> QED
    BY Zenon, <1>2, <1>4

\* An exclusive job that runs on a node is the only one its run_job_cnt counts.
LEMMA RunsAlone ==
  ASSUME Counting, FullInv, ExclusiveUse, NEW n \in Nodes, NEW j \in Jobs \cap Exclusive, RunsOn(job[j], n)
  PROVE  /\ Decr(node[n].run_job_cnt) = 0
         /\ \A i \in Jobs : RunsOn(job[i], n) \/ n \in CgSet(job[i]) => i = j
  <1> DEFINE R == {k \in Jobs : RunsOn(job[k], n)}
             C == {k \in Jobs : n \in CgSet(job[k])}
  <1>1. RunningOn(n) = R /\ CompletingOn(n) = C /\ node[n].run_job_cnt = Cardinality(R)
    BY Zenon, OnNodeSets DEF FullInv, IInv, RunCountExact
  <1>2. R \cup C = {j} /\ j \in R
    BY Zenon, <1>1 DEF ExclusiveUse
  <1>3. R \in SUBSET Jobs /\ R \ {j} = {}
    BY Zenon, <1>2
  <1>4. Cardinality(R \ {j}) = Cardinality(R) - 1 /\ Cardinality(R) \in Nat /\ Cardinality({}) = 0
    BY Zenon, <1>2, <1>3 DEF Counting
  <1>5. Decr(Cardinality(R)) = 0
    BY SMTT(30), <1>3, <1>4 DEF Decr
  <1>6. \A i \in Jobs : RunsOn(job[i], n) \/ n \in CgSet(job[i]) => i \in R \cup C
    BY Zenon
  <1> HIDE DEF R, C
  <1> QED
    BY Zenon, <1>1, <1>2, <1>5, <1>6

\* The invariant in the next state, in terms of the new records
LEMMA UseNext ==
  ASSUME FullInv', \A n \in Nodes : AgreeOK(node'[n]),
         "suspend" \notin Inputs =>
           /\ \A i \in Jobs : job'[i].state # "SUSPENDED"
           /\ \A n \in Nodes, k \in Jobs \cap Exclusive : RunsOn(job'[k], n) =>
                /\ \A i \in Jobs : RunsOn(job'[i], n) \/ n \in CgSet(job'[i]) => i = k
                /\ IsDown(node'[n]) \/ ~node'[n].share
  PROVE  UseInv'
  <1>1. \A n \in Nodes : AgreeOK(node[n])'
    BY Zenon DEF AgreeOK, IsDown
  <1>2. ASSUME "suspend" \notin Inputs PROVE ExclusiveUse'
    <2>1. ASSUME NEW n \in Nodes, NEW k \in RunningOn(n)' \cap Exclusive
          PROVE  RunningOn(n)' \cup CompletingOn(n)' = {k}
      <3> DEFINE R == {i \in Jobs : RunsOn(job'[i], n)}
                 C == {i \in Jobs : n \in CgSet(job'[i])}
      <3>1. RunningOn(n)' = R /\ CompletingOn(n)' = C
        BY Zenon, OnNodeSetsNext
      <3>2. k \in Jobs \cap Exclusive /\ RunsOn(job'[k], n)
        BY Zenon, <2>1, <3>1
      <3>3. \A i \in Jobs : RunsOn(job'[i], n) \/ n \in CgSet(job'[i]) => i = k
        BY Zenon, <1>2, <3>2
      <3>4. R \cup C = {k}
        BY ZenonT(30), <3>2, <3>3
      <3> QED
        BY Zenon, <3>1, <3>4
    <2> QED
      BY Zenon, <2>1 DEF ExclusiveUse
  <1>3. ASSUME "suspend" \notin Inputs, NEW n \in Nodes, NEW k \in Jobs \cap Exclusive
        PROVE  (~IsDown(node[n]) /\ node[n].share => ~RunsOn(job[k], n))'
    BY Zenon, <1>3 DEF IsDown, RunsOn, OnNode
  <1> QED
    BY Zenon, <1>1, <1>2, <1>3 DEF UseInv

\* A step after which no job uses a node it did not use
LEMMA StepUses ==
  ASSUME Counting, FullInv, FullInv', UseInv, NodesFit(node'), \A i \in Jobs : Shrinks(job[i], job'[i])
  PROVE  UseInv'
  <1>1. \A n \in Nodes : AgreeOK(node'[n])
    BY Zenon DEF UseInv, NodesFit, Fits
  <1>2. ASSUME "suspend" \notin Inputs, NEW i \in Jobs
        PROVE  /\ job'[i].state # "SUSPENDED"
               /\ \A n \in Nodes : /\ RunsOn(job'[i], n) => RunsOn(job[i], n)
                                   /\ n \in CgSet(job'[i]) => n \in CgSet(job[i]) \/ RunsOn(job[i], n)
    <2>1. job[i].state # "SUSPENDED" /\ JobOK(job[i]) /\ Shrinks(job[i], job'[i])
      BY Zenon, <1>2, JobFacts DEF UseInv
    <2> QED
      BY Zenon, <2>1 DEF Shrinks, RunsOn, OnNode, JobOK, Active
  <1>3. ASSUME "suspend" \notin Inputs, NEW n \in Nodes, NEW k \in Jobs \cap Exclusive, RunsOn(job'[k], n)
        PROVE  /\ \A i \in Jobs : RunsOn(job'[i], n) \/ n \in CgSet(job'[i]) => i = k
               /\ IsDown(node'[n]) \/ ~node'[n].share
    <2>1. RunsOn(job[k], n) /\ ExclusiveUse /\ (IsDown(node[n]) \/ ~node[n].share)
      BY Zenon, <1>2, <1>3 DEF UseInv
    <2>2. /\ \A i \in Jobs : RunsOn(job[i], n) \/ n \in CgSet(job[i]) => i = k
          /\ Decr(node[n].run_job_cnt) = 0
      BY Zenon, <2>1, RunsAlone
    <2>3. \A i \in Jobs : RunsOn(job'[i], n) \/ n \in CgSet(job'[i]) => i = k
      BY Zenon, <1>2, <1>3, <2>2
    <2>4. node'[n].run_job_cnt # 0
      BY Zenon, <1>3, NothingRuns
    <2>5. Fits(node[n], node'[n])
      BY Zenon DEF NodesFit
    <2> QED
      BY Zenon, <2>1, <2>2, <2>3, <2>4, <2>5 DEF Fits
  <1> QED
    BY Zenon, <1>1, <1>2, <1>3, UseNext

\* An event of one node
LEMMA NodeUses ==
  ASSUME Counting, FullInv, FullInv', UseInv, NEW n \in Nodes, NEW d, Fits(node[n], d),
         job' = job, node' = [node EXCEPT ![n] = d]
  PROVE  UseInv'
  <1>1. node \in [Nodes -> NodeRecord] /\ \A i \in Nodes : node'[i] = IF i = n THEN d ELSE node[i]
    BY Zenon DEF FullInv, IInv, TypeOK
  <1>2. NodesFit(node')
    <2>1. \A i \in Nodes : node[i] \in NodeRecord
      BY Zenon, <1>1
    <2>2. \A i \in Nodes : Tame(node[i], node[i])
      BY Zenon, <2>1, FitsFlags
    <2>3. \A i \in Nodes : Fits(node[i], node[i])
      BY Zenon, <2>2, TameFits
    <2> QED
      BY Zenon, <1>1, <2>3 DEF NodesFit
  <1>3. \A i \in Jobs : Shrinks(job[i], job'[i])
    BY Zenon, UseShrinks DEF SameUse
  <1> QED
    BY Zenon, <1>2, <1>3, StepUses

-----------------------------------------------------------------------------
(* The handlers.                                                           *)

\* deallocate_nodes()
LEMMA DeallocateFits ==
  ASSUME FullInv, NEW j \in Jobs, NEW q, q.state \notin Active, NEW suspended \in BOOLEAN
  PROVE  NodesFit(DeallocateNodes(j, q, node, suspended))
  <1> DEFINE excl == j \in Exclusive
             comp(n) == MakeNodeComp(node[n], excl, suspended)
             free(n) == MakeNodeIdle(comp(n), TRUE, q.state, FALSE, j \in OwnerExclusive)
             ns == DeallocateNodes(j, q, node, suspended)
  <1>1. \A n \in Nodes : ns[n] = IF n \notin q.node_bitmap_cg THEN node[n]
                                 ELSE IF q.prolog_running /\ ~IsDown(node[n]) THEN free(n) ELSE comp(n)
    BY Zenon DEF DeallocateNodes
  <1>2. excl \in BOOLEAN /\ (j \in OwnerExclusive) \in BOOLEAN /\ q.state \notin {"RUNNING", "SUSPENDED"}
    BY SMTT(30) DEF Active
  <1>3. ASSUME NEW n \in Nodes
        PROVE  Fits(node[n], ns[n])
    <2>1. node[n] \in NodeRecord
      BY Zenon, JobFacts
    <2>2. Fits(node[n], comp(n)) /\ comp(n) \in NodeRecord
      BY <1>2, <2>1, FitsComp, MakeNodeCompType, Zenon
    <2>3. Fits(node[n], node[n])
      BY Zenon, <2>1, FitsFlags, TameFits
    <2> HIDE DEF comp, excl
    <2>4. Tame(comp(n), free(n)) /\ free(n).run_job_cnt = comp(n).run_job_cnt
      BY <1>2, <2>2, FitsIdle, IdleCountsEnded, Zenon
    <2> HIDE DEF free
    <2>5. Fits(node[n], free(n))
      BY Zenon, <2>2, <2>4, TameFits
    <2> HIDE DEF ns
    <2> QED
      BY Zenon, <1>1, <2>2, <2>3, <2>5
  <1> QED
    BY Zenon, <1>3 DEF NodesFit

\* The endings of an active job
LEMMA EndFits ==
  ASSUME FullInv, NEW j \in Jobs, NEW state \in JobBase \ Active
  PROVE  /\ NodesFit(node)
         /\ job[j].state \in Active => NodesFit(EndNodes(j, job[j], state, node))
         /\ NodesFit(ActiveNodes(j, job[j], state, node))
  <1> DEFINE r == job[j]
             q == Ending(r, state, r.exit_code)
  <1>1. r \in JobRecord /\ JobOK(r) /\ r.exit_code \in ExitCodes /\ node \in [Nodes -> NodeRecord]
    BY Zenon, JobFacts DEF JobRecord
  <1>2. NodesFit(node)
    BY Zenon, <1>1, FitsFlags, TameFits DEF NodesFit
  <1>3. ASSUME r.state \in Active PROVE NodesFit(EndNodes(j, r, state, node))
    <2>1. (r.state = "SUSPENDED") \in BOOLEAN /\ q.state = state
      <3>1. (r.state = "SUSPENDED") \in BOOLEAN
        BY Zenon
      <3>2. q.state = state
        BY Zenon, <1>1, <1>3, EndingFacts
      <3> QED
        BY Zenon, <3>1, <3>2
    <2>2. EndNodes(j, r, state, node) = DeallocateNodes(j, q, node, r.state = "SUSPENDED")
      BY Zenon DEF EndNodes
    <2> HIDE DEF q
    <2> QED
      BY Zenon, <2>1, <2>2, DeallocateFits
  <1> QED
    BY Zenon, <1>2, <1>3 DEF ActiveNodes

\* Every action on job j but its start, suspension and resumption
LEMMA JobStepFits ==
  ASSUME Counting, FullInv, Expedited = {}, NEW j \in Jobs, JobStep(j)
  PROVE  /\ OthersKept(j)
         /\ \/ NodesFit(node')
            \/ \E ns \in SUBSET Nodes : Start(j, ns)
            \/ Suspend(j) \/ Resume(j)
  <1> DEFINE r == job[j]
             Other == \/ \E ns \in SUBSET Nodes : Start(j, ns)
                      \/ Suspend(j) \/ Resume(j)
             Goal == OthersKept(j) /\ (NodesFit(node') \/ Other)
  <1>1. /\ r \in JobRecord /\ JobOK(r) /\ Rec(r) /\ ExpeditingOK(j, r) /\ ~Expediting(r)
        /\ node \in [Nodes -> NodeRecord]
    BY Zenon, JobFacts, JobRecordRec DEF ExpeditingOK
  <1>2. ASSUME NEW q, NEW ns, NEW sent, Handle(j, q, ns, sent), NodesFit(ns) \/ Other
        PROVE  Goal
    <2>1. job' = [job EXCEPT ![j] = q] /\ node' = ns
      BY Zenon, <1>2 DEF Handle
    <2>2. OthersKept(j)
      BY Zenon, <2>1 DEF OthersKept, FullInv, IInv, TypeOK
    <2> HIDE DEF Other
    <2> QED
      BY Zenon, <1>2, <2>1, <2>2
  <1>3. /\ "CANCELLED" \in JobBase \ Active /\ "TIMEOUT" \in JobBase \ Active
        /\ "PENDING" \in JobBase \ Active
        /\ \A code \in ExitCodes : FinalState(code) \in JobBase \ Active
    BY Zenon DEF JobBase, Finished, Active, FinalState
  <1>4. \A state \in JobBase \ Active :
          /\ NodesFit(node) /\ NodesFit(ActiveNodes(j, r, state, node))
          /\ r.state \in Active => NodesFit(EndNodes(j, r, state, node))
    BY Zenon, EndFits
  <1>5. NodesFit(node)
    BY Zenon, <1>3, <1>4
  <1>6. ASSUME NEW ns \in SUBSET Nodes, Start(j, ns) PROVE Goal
    <2>1. Handle(j, StartJob(r, ns), AllocateNodes(j, ns, node), {})
      BY Zenon, <1>6 DEF Start
    <2>2. Other
      BY Zenon, <1>6
    <2> HIDE DEF Goal, Other
    <2> QED
      BY Zenon, <1>2, <2>1, <2>2
  <1>7. ASSUME Suspend(j) \/ Resume(j) PROVE Goal
    <2>1. \E q, ns : Handle(j, q, ns, {})
      BY Zenon, <1>7 DEF Suspend, Resume
    <2>2. Other
      BY Zenon, <1>7
    <2> HIDE DEF Goal, Other
    <2> QED
      BY Zenon, <1>2, <2>1, <2>2
  <1> HIDE DEF Goal, Other
  <1>8. ASSUME NEW ok \in BOOLEAN, PrologSlurmctldDone(j, ok) PROVE Goal
    <2>1. \E q, ns : /\ Handle(j, q, ns, {})
                     /\ ns = node \/ (r.state \in Active /\ ns = EndNodes(j, r, "CANCELLED", node))
      BY <1>8, ZenonT(30) DEF PrologSlurmctldDone
    <2> QED
      BY Zenon, <1>2, <1>3, <1>4, <1>5, <2>1
  <1>9. ASSUME Cancel(j) PROVE Goal
    BY Zenon, <1>2, <1>3, <1>4, <1>9 DEF Cancel
  <1>10. ASSUME TimeLimit(j) PROVE Goal
    <2>1. r.state \in Active
      BY Zenon, <1>10 DEF TimeLimit, Active
    <2> QED
      BY Zenon, <1>2, <1>3, <1>4, <1>10, <2>1 DEF TimeLimit
  <1>11. ASSUME LaunchFailure(j) PROVE Goal
    BY Zenon, <1>2, <1>3, <1>4, <1>11 DEF LaunchFailure
  <1>12. ASSUME NEW code \in ExitCodes, JobComplete(j, code) PROVE Goal
    BY Zenon, <1>2, <1>3, <1>4, <1>12 DEF JobComplete
  <1>13. ASSUME NEW kind \in {"plain", "hold", "launch_failed"}, RequeueOp(j, kind) PROVE Goal
    BY Zenon, <1>2, <1>3, <1>4, <1>13 DEF RequeueOp
  <1>14. ASSUME Release(j) PROVE Goal
    BY Zenon, <1>2, <1>5, <1>14 DEF Release
  <1>15. ASSUME EpilogSlurmctldDone(j) PROVE Goal
    <2> DEFINE e == [r EXCEPT !.epilog_running = FALSE]
    <2>1. \/ Handle(j, CleanupRequeue(j, e), CleanupRequeueNodes(j, e, node), {})
          \/ Handle(j, e, node, {})
      BY Zenon, <1>15 DEF EpilogSlurmctldDone
    <2>2. Rec(e) /\ ~Expediting(e)
      BY Zenon, <1>1 DEF Rec, Expediting
    <2> HIDE DEF e
    <2>3. CleanupRequeueNodes(j, e, node) = node
      BY Zenon, <1>1, <2>2, NoRelease
    <2> QED
      BY Zenon, <1>2, <1>5, <2>1, <2>3
  <1>16. ASSUME ReKillJob(j) PROVE Goal
    <2> DEFINE lost == r.node_bitmap_cg \cap DownNodes(node)
               q == [r EXCEPT !.node_bitmap_cg = @ \ lost, !.node_cnt = @ - Cardinality(lost)]
               f(n) == [node[n] EXCEPT !.comp_job_cnt = Decr(@)]
               ns == [n \in Nodes |-> IF n \in lost THEN f(n) ELSE node[n]]
    <2>1. \E sent : \/ Handle(j, CleanupRequeue(j, q), CleanupRequeueNodes(j, q, ns), sent)
                    \/ Handle(j, q, ns, sent)
      BY Zenon, <1>16 DEF ReKillJob
    <2>2. Rec(q) /\ ~Expediting(q)
      BY Zenon, <1>1 DEF Rec, Expediting
    <2> HIDE DEF q
    <2>3. \A n \in Nodes : /\ f(n) \in NodeRecord
                           /\ IsDown(node[n]) => Fits(node[n], f(n))
      BY Zenon, <1>1, LeavePhaseType, FitsDown
    <2>4. \A n \in lost : IsDown(node[n])
      BY Zenon DEF DownNodes
    <2> HIDE DEF f, lost
    <2>5. ns \in [Nodes -> NodeRecord]
      BY Zenon, <1>1, <2>3
    <2>6. NodesFit(ns)
      BY Zenon, <1>5, <2>3, <2>4 DEF NodesFit
    <2> HIDE DEF ns
    <2>7. CleanupRequeueNodes(j, q, ns) = ns
      BY Zenon, <2>2, <2>5, NoRelease
    <2> QED
      BY Zenon, <1>2, <2>1, <2>6, <2>7
  <1>17. Goal
    BY Zenon, <1>6, <1>7, <1>8, <1>9, <1>10, <1>11, <1>12, <1>13, <1>14, <1>15, <1>16 DEF JobStep
  <1> QED
    BY Zenon, <1>17 DEF Goal, Other

\* The scheduler starts job j: it has not put it on a node that an exclusive job
\* uses, nor an exclusive job on a node in use.
LEMMA StartUses ==
  ASSUME Counting, FullInv, FullInv', UseInv, Expedited = {}, NEW j \in Jobs,
         NEW ns \in SUBSET Nodes, Start(j, ns), OthersKept(j)
  PROVE  UseInv'
  <1> DEFINE r == job[j]
             q == StartJob(r, ns)
             excl == j \in Exclusive
             f(n) == MakeNodeAlloc(node[n], excl, j \in OwnerExclusive, User[j])
  <1>1. r \in JobRecord /\ JobOK(r) /\ Rec(r) /\ node \in [Nodes -> NodeRecord]
    BY Zenon, JobFacts, JobRecordRec
  <1>2. /\ r.state = "PENDING" /\ ~Completing(r)
        /\ \A n \in ns : /\ node[n].avail /\ ~node[n].completing
                         /\ IF excl THEN node[n].idle ELSE node[n].share
        /\ job' = [job EXCEPT ![j] = q] /\ node' = AllocateNodes(j, ns, node)
    BY Zenon DEF Start, Runnable, Usable, Handle
  <1>3. job'[j] = q /\ \A i \in Jobs : i # j => job'[i] = job[i]
    BY Zenon, <1>2 DEF OthersKept, FullInv, IInv, TypeOK
  <1>4. \A n \in Nodes : node'[n] = IF n \in ns THEN f(n) ELSE node[n]
    BY Zenon, <1>2 DEF AllocateNodes
  <1>5. q.state = "RUNNING" /\ q.node_bitmap = ns /\ CgSet(q) = {}
    <2>1. q.state = "RUNNING" /\ q.node_bitmap = ns /\ q.node_bitmap_cg = r.node_bitmap_cg
      BY Zenon, <1>1 DEF StartJob, JobStateSet, Rec
    <2>2. r.node_bitmap_cg \in {NULL, {}}
      BY Zenon, <1>1, <1>2 DEF JobOK, Active
    <2> HIDE DEF q
    <2> QED
      BY Zenon, <2>1, <2>2 DEF CgSet
  <1> HIDE DEF q
  <1>6. excl \in BOOLEAN /\ (j \in OwnerExclusive) \in BOOLEAN
    BY SMTT(30)
  <1> HIDE DEF excl
  <1>7. ASSUME NEW n \in ns
        PROVE  ~IsDown(node[n]) /\ AgreeOK(node[n]) /\ AgreeOK(f(n)) /\ (f(n).share => ~excl)
    <2>1. node[n] \in NodeRecord /\ Healthy(node[n]) /\ AgreeOK(node[n])
      BY Zenon, <1>1 DEF FullInv, UseInv
    <2>2. ~IsDown(node[n])
      BY Zenon, <1>2, <2>1 DEF Healthy
    <2> QED
      BY <1>6, <2>1, <2>2, FitsAlloc, Zenon
  <1> HIDE DEF f
  <1>8. \A n \in Nodes : AgreeOK(node'[n])
    BY Zenon, <1>4, <1>7 DEF UseInv
  <1>9. ASSUME NEW n \in ns, excl, NEW i \in Jobs PROVE ~RunsOn(job[i], n) /\ n \notin CgSet(job[i])
    <2>1. node[n].run_job_cnt = 0 /\ node[n].comp_job_cnt = 0
      BY Zenon, <1>2, <1>7, <1>9 DEF AgreeOK
    <2> QED
      BY Zenon, <2>1, NothingRuns
  <1>10. ASSUME NEW n \in ns, ~excl, "suspend" \notin Inputs, NEW i \in Jobs \cap Exclusive PROVE ~RunsOn(job[i], n)
    BY Zenon, <1>2, <1>7, <1>10 DEF UseInv
  <1>11. ASSUME "suspend" \notin Inputs, NEW n \in Nodes, NEW k \in Jobs \cap Exclusive, RunsOn(job'[k], n)
         PROVE  /\ \A i \in Jobs : RunsOn(job'[i], n) \/ n \in CgSet(job'[i]) => i = k
                /\ IsDown(node'[n]) \/ ~node'[n].share
    <2>1. CASE n \notin ns
      <3>1. ~RunsOn(q, n) /\ n \notin CgSet(q)
        BY Zenon, <1>5, <2>1 DEF RunsOn, OnNode
      <3>2. RunsOn(job[k], n) /\ ExclusiveUse /\ (IsDown(node[n]) \/ ~node[n].share)
        BY Zenon, <1>3, <1>11, <3>1 DEF UseInv
      <3>3. \A i \in Jobs : RunsOn(job[i], n) \/ n \in CgSet(job[i]) => i = k
        BY Zenon, <3>2, RunsAlone
      <3> QED
        BY Zenon, <1>3, <1>4, <2>1, <3>1, <3>2, <3>3
    <2>2. CASE n \in ns /\ k = j
      <3>1. excl
        BY Zenon, <2>2 DEF excl
      <3>2. \A i \in Jobs : ~RunsOn(job[i], n) /\ n \notin CgSet(job[i])
        BY Zenon, <1>9, <2>2, <3>1
      <3>3. node'[n] = f(n) /\ ~f(n).share
        BY Zenon, <1>4, <1>7, <2>2, <3>1
      <3> QED
        BY Zenon, <1>3, <2>2, <3>2, <3>3
    <2>3. CASE n \in ns /\ k # j
      <3>1. RunsOn(job[k], n)
        BY Zenon, <1>3, <1>11, <2>3
      <3> QED
        BY Zenon, <1>9, <1>10, <1>11, <2>3, <3>1
    <2> QED
      BY Zenon, <2>1, <2>2, <2>3
  <1>12. ASSUME "suspend" \notin Inputs, NEW i \in Jobs PROVE job'[i].state # "SUSPENDED"
    BY Zenon, <1>3, <1>5, <1>12 DEF UseInv
  <1> QED
    BY Zenon, <1>8, <1>11, <1>12, UseNext

\* scontrol suspend and resume: the state of the nodes agrees with the counters.
LEMMA SuspendUses ==
  ASSUME FullInv, FullInv', UseInv, NEW j \in Jobs, Suspend(j) \/ Resume(j)
  PROVE  UseInv'
  <1> DEFINE r == job[j]
             excl == j \in Exclusive
             f(n) == SuspendJobNode(node[n], excl)
             g(n) == ResumeJobNode(node[n], excl)
  <1>1. node \in [Nodes -> NodeRecord] /\ \A n \in Nodes : AgreeOK(node[n])
    BY Zenon DEF FullInv, IInv, TypeOK, UseInv
  <1>2. "suspend" \in Inputs
    BY Zenon DEF Suspend, Resume, Requested
  <1>3. excl \in BOOLEAN
    BY SMTT(30)
  <1>4. \A n \in Nodes : /\ AgreeOK(f(n))
                         /\ ~IsDown(node[n]) => AgreeOK(g(n))
    BY <1>1, <1>3, FitsSuspend, FitsAlloc, Zenon
  <1>5. CASE Suspend(j)
    <2>1. \A n \in Nodes : node'[n] = IF OnNode(r, n) THEN f(n) ELSE node[n]
      BY Zenon, <1>5 DEF Suspend, Handle
    <2> HIDE DEF f
    <2> QED
      BY Zenon, <1>1, <1>2, <1>4, <2>1, UseNext
  <1>6. CASE Resume(j)
    <2>1. \A n \in Nodes : /\ node'[n] = IF OnNode(r, n) THEN g(n) ELSE node[n]
                           /\ OnNode(r, n) => ~IsDown(node[n])
      BY Zenon, <1>6 DEF Resume, Handle
    <2> HIDE DEF g
    <2> QED
      BY Zenon, <1>1, <1>2, <1>4, <2>1, UseNext
  <1> QED
    BY Zenon, <1>5, <1>6

\* Every action on a job
LEMMA JobStepUses ==
  ASSUME Counting, FullInv, FullInv', DownInv, UseInv, Expedited = {}, Requeue \subseteq Batch,
         NEW j \in Jobs, JobStep(j)
  PROVE  UseInv'
  <1>1. /\ OthersKept(j)
        /\ \/ NodesFit(node')
           \/ \E ns \in SUBSET Nodes : Start(j, ns)
           \/ Suspend(j) \/ Resume(j)
    BY Zenon, JobStepFits
  <1>2. UseStep(j)
    BY Zenon, JobStepClears
  <1>3. CASE NodesFit(node') /\ Shrinks(job[j], job'[j])
    <2>1. \A i \in Jobs : Shrinks(job[i], job'[i])
      BY Zenon, <1>1, <1>3, UseShrinks DEF OthersKept, SameUse
    <2> QED
      BY Zenon, <1>3, <2>1, StepUses
  <1>4. ASSUME NEW ns \in SUBSET Nodes, Start(j, ns) PROVE UseInv'
    BY Zenon, <1>1, <1>4, StartUses
  <1>5. CASE Suspend(j) \/ Resume(j)
    BY Zenon, <1>5, SuspendUses
  <1> QED
    BY Zenon, <1>1, <1>2, <1>3, <1>4, <1>5 DEF UseStep

\* The scan after a node failure
LEMMA ScanStepUses ==
  ASSUME Counting, FullInv, FullInv', DownInv, UseInv, Expedited = {}, Requeue \subseteq Batch,
         NEW j \in Jobs, ScanStep(j)
  PROVE  UseInv'
  <1> DEFINE r == job[j]
             n == down.node
             d == node[n]
  <1>1. /\ r \in JobRecord /\ JobOK(r) /\ Rec(r) /\ ~Expediting(r)
        /\ node \in [Nodes -> NodeRecord]
    BY Zenon, JobFacts, JobRecordRec DEF ExpeditingOK
  <1>2. n \in Nodes /\ IsDown(d) /\ d \in NodeRecord
    <2>1. n # NULL
      BY Zenon DEF ScanStep, ScanSkips, ScanCompleting, ScanExcises, ScanRequeues, ScanKills, Scan
    <2> QED
      BY Zenon, <1>1, <2>1 DEF DownInv, FullInv, IInv, TypeOK
  <1>3. "NODE_FAIL" \in JobBase \ Active /\ "signal" \in ExitCodes
    BY Zenon DEF JobBase, Finished, Active, ExitCodes
  <1>4. NodesFit(node)
    BY Zenon, <1>3, EndFits
  <1>5. ASSUME NEW q, NEW ns, NEW sent, Scan(j, q, ns, sent), NodesFit(ns)
        PROVE  UseInv'
    <2>1. job' = [job EXCEPT ![j] = q] /\ node' = ns
      BY Zenon, <1>5 DEF Scan
    <2>2. Shrinks(job[j], job'[j])
      BY Zenon, ScanStepClears
    <2>3. \A i \in Jobs : i # j => job'[i] = job[i]
      BY Zenon, <2>1 DEF FullInv, IInv, TypeOK
    <2>4. \A i \in Jobs : Shrinks(job[i], job'[i])
      BY Zenon, <2>2, <2>3, UseShrinks DEF SameUse
    <2> QED
      BY Zenon, <1>5, <2>1, <2>4, StepUses
  <1>6. ASSUME NEW e, Fits(d, e) PROVE NodesFit([node EXCEPT ![n] = e])
    BY Zenon, <1>1, <1>4, <1>6 DEF NodesFit
  <1>7. CASE ScanSkips(j)
    BY Zenon, <1>4, <1>5, <1>7 DEF ScanSkips
  <1>8. CASE ScanCompleting(j)
    <2> DEFINE q == [r EXCEPT !.node_bitmap_cg = @ \ {n}, !.node_cnt = Decr(@)]
               ms == CleanupRequeueNodes(j, q, node)
    <2>1. Scan(j, CleanupRequeue(j, q), [ms EXCEPT ![n].comp_job_cnt = Decr(@)], {})
      BY Zenon, <1>8 DEF ScanCompleting
    <2>2. Rec(q) /\ ~Expediting(q)
      BY Zenon, <1>1 DEF Rec, Expediting
    <2> HIDE DEF q
    <2>3. ms = node
      BY Zenon, <1>1, <2>2, NoRelease
    <2> HIDE DEF ms
    <2>4. Fits(d, [d EXCEPT !.comp_job_cnt = Decr(@)])
      BY Zenon, <1>2, FitsDown
    <2>5. Scan(j, CleanupRequeue(j, q), [node EXCEPT ![n] = [d EXCEPT !.comp_job_cnt = Decr(@)]], {})
      BY Zenon, <2>1, <2>3
    <2> QED
      BY Zenon, <1>5, <1>6, <2>4, <2>5
  <1>9. CASE ScanExcises(j)
    <2> DEFINE left == ExcisedBitmap(r, n)
               fresh == r.node_bitmap_cg = NULL \/ n \in r.node_bitmap_cg
               q == [r EXCEPT !.node_bitmap = left, !.node_cnt = Cardinality(left)]
               e == MakeNodeIdle(d, fresh, r.state, FALSE, j \in OwnerExclusive)
    <2>1. Scan(j, q, [node EXCEPT ![n] = e], {})
      BY Zenon, <1>9 DEF ScanExcises
    <2>2. (j \in OwnerExclusive) \in BOOLEAN
      BY SMTT(30)
    <2>3. Fits(d, e)
      BY <1>2, <2>2, FitsIdle, TameFits, Zenon
    <2> HIDE DEF q, e
    <2> QED
      BY Zenon, <1>5, <1>6, <2>1, <2>3
  <1>10. CASE ScanRequeues(j)
    <2> DEFINE q == BuildCgBitmap([JobStateSet(r, "NODE_FAIL", {}) EXCEPT !.exit_code = "signal"])
               t == SetRequeuedJobPendingCompleting(DeallocateJob(j, q, node))
               x == j \in Expedited
               s == [t EXCEPT !.exit_code = "zero",
                              !.flags = IF x THEN @ \cup {"EXPEDITING"} ELSE @,
                              !.epilog_failed = @ \/ x]
               ns == DeallocateNodes(j, q, node, r.state = "SUSPENDED")
               sent == TerminateMsgs(j, q)
    <2>1. /\ r.state \in Active
          /\ \/ Scan(j, BatchRequeueFini(j, s), ExpediteRelease(s, ns), sent)
             \/ Scan(j, s, ns, sent)
      BY Zenon, <1>10 DEF ScanRequeues, ScanActive
    <2>2. q.state = "NODE_FAIL"
      BY Zenon, <1>1 DEF Rec, BuildCgBitmap, JobStateSet
    <2>3. s \in JobRecord /\ ~Expediting(s) /\ ns \in [Nodes -> NodeRecord]
      <3>1. StepOK(j, r, s, node, ns)
        BY <1>1, <2>1, StepScanRequeues, Zenon
      <3> HIDE DEF s, ns
      <3> QED
        BY Zenon, <3>1 DEF StepOK, ExpeditingOK
    <2>4. NodesFit(ns)
      <3>1. (r.state = "SUSPENDED") \in BOOLEAN
        BY SMTT(30)
      <3> HIDE DEF q
      <3> QED
        BY Zenon, <1>3, <2>2, <3>1, DeallocateFits
    <2> HIDE DEF s, ns, sent
    <2>5. ExpediteRelease(s, ns) = ns
      BY Zenon, <2>3, JobRecordRec, NoRelease
    <2> QED
      BY Zenon, <1>5, <2>1, <2>4, <2>5
  <1>11. CASE ScanKills(j)
    BY Zenon, <1>3, <1>5, <1>11, EndFits DEF ScanKills, ScanActive
  <1> QED
    BY Zenon, <1>7, <1>8, <1>9, <1>10, <1>11 DEF ScanStep

\* The events of a node.  One that comes back into service has no job left.
LEMMA NodeStepUses ==
  ASSUME Counting, FullInv, FullInv', DownInv, UseInv, Expedited = {}, NEW n \in Nodes, NodeStep(n)
  PROVE  UseInv'
  <1> DEFINE d == node[n]
  <1>1. d \in NodeRecord /\ AgreeOK(d) /\ LocksFree
    BY Zenon DEF FullInv, IInv, TypeOK, UseInv, NodeStep, NotResponding, Responding, Register, Drain,
                 UndoDrain, NodeEvent, SetNodeDown, Requested
  <1>2. IsDown(d) => d.run_job_cnt = 0 /\ d.comp_job_cnt = 0
    <2>1. IsDown(d) => RunningOn(n) = {} /\ CompletingOn(n) = {}
      <3>1. \A j \in Jobs : IsDown(d) => ~Uses(job[j], n)
        BY Zenon, <1>1, JobClear DEF Clear
      <3> QED
        BY Zenon, <3>1 DEF Uses, RunningOn, CompletingOn, Active
    <2>2. d.run_job_cnt = Cardinality(RunningOn(n)) /\ d.comp_job_cnt = Cardinality(CompletingOn(n))
      BY Zenon DEF FullInv, RunCountExact, CompCountExact
    <2>3. Cardinality({}) = 0
      BY Zenon DEF Counting
    <2> QED
      BY Zenon, <2>1, <2>2, <2>3
  <1>3. ReturnToService \in BOOLEAN
    BY Zenon, ParamAssumption
  <1>4. /\ Fits(d, NodeNotResp(d)) /\ Fits(d, DrainNode(d)) /\ Fits(d, MakeNodeDown(d))
        /\ Fits(d, NodeDidResp(d, ReturnToService)) /\ Fits(d, ResumeNode(d))
        /\ Fits(d, ValidateNodeSpecs(d, ReturnToService))
    BY <1>1, <1>2, <1>3, FitsFlags, TameFits, FitsReturn, Zenon
  <1>5. \E e : Fits(d, e) /\ job' = job /\ node' = [node EXCEPT ![n] = e]
    BY ZenonT(30), <1>4 DEF NodeStep, NotResponding, Responding, Register, Drain, UndoDrain, SetNodeDown,
                            NodeEvent
  <1> QED
    BY Zenon, <1>5, NodeUses

\* The messages of slurmd
LEMMA EpilogUses ==
  ASSUME Counting, FullInv, FullInv', DownInv, UseInv, Expedited = {}, Requeue \subseteq Batch,
         NEW m \in msgs, NEW again \in BOOLEAN, EpilogComplete(m, again), EpilogMatches(m, job[m.job])
  PROVE  UseInv'
  <1> DEFINE j == m.job
             n == m.node
             o == job[j]
             r == [o EXCEPT !.epilog_failed = @ \/ m.rc # 0]
             q == NodeEpilogDone(j, r, n)
             d == IF m.rc # 0 THEN DrainNode(node[n]) ELSE node[n]
             e == MakeNodeIdle(d, n \in r.node_bitmap_cg, q.state, Expediting(q), j \in OwnerExclusive)
             nodes == [node EXCEPT ![n] = e]
             t == IF Completing(q) THEN q ELSE BatchRequeueFini(j, q)
  <1>1. j \in Jobs /\ n \in Nodes /\ node \in [Nodes -> NodeRecord] /\ node[n] \in NodeRecord
    BY Zenon DEF FullInv, IInv, TypeOK, Messages
  <1>2. /\ job' = [job EXCEPT ![j] = t]
        /\ node' = IF Completing(q) THEN nodes ELSE ExpediteRelease(q, nodes)
    BY ZenonT(30) DEF EpilogComplete
  <1>3. o \in JobRecord /\ JobOK(o) /\ Rec(o) /\ Freed(j, o) /\ ~EpilogIgnored(o) /\ ~Expediting(o)
    BY Zenon, <1>1, JobFacts, JobRecordRec, JobClear DEF EpilogMatches, ExpeditingOK
  <1>4. o.state \notin Active
    BY Zenon, <1>3 DEF EpilogIgnored, JobOK, Freed
  <1>5. Rec(r) /\ r.state \notin Active /\ ~Expediting(r)
    BY Zenon, <1>3, <1>4 DEF Rec, Expediting
  <1> HIDE DEF r
  <1>6. Rec(q) /\ q.state \notin Active /\ ~Expediting(q)
    <2> DEFINE p == [r EXCEPT !.node_bitmap_cg = @ \ {n}, !.node_cnt = @ - 1]
    <2>1. Rec(p) /\ p.state \notin Active /\ ~Expediting(p)
      BY Zenon, <1>5 DEF Rec, Expediting
    <2>2. q \in {r, CleanupCompleting(j, p)}
      BY Zenon DEF NodeEpilogDone
    <2> HIDE DEF p
    <2>3. Rec(CleanupCompleting(j, p)) /\ CleanupCompleting(j, p).state \notin Active
      BY <2>1, CleanupCompletingFrees, Zenon
    <2>4. ~Expediting(CleanupCompleting(j, p))
      BY Zenon, <1>1, <2>1, NoRelease
    <2> HIDE DEF q
    <2> QED
      BY Zenon, <1>5, <2>2, <2>3, <2>4
  <1> HIDE DEF q
  <1>7. d \in NodeRecord /\ Tame(node[n], d)
    BY <1>1, MakeNodeDownType, FitsFlags, Zenon
  <1> HIDE DEF d
  <1>8. e = MakeNodeIdle(d, n \in r.node_bitmap_cg, q.state, FALSE, j \in OwnerExclusive)
    <2>1. Expediting(q) = FALSE
      BY SMTT(30), <1>6 DEF Expediting
    <2> QED
      BY Zenon, <2>1
  <1>9. /\ (n \in r.node_bitmap_cg) \in BOOLEAN /\ (j \in OwnerExclusive) \in BOOLEAN
        /\ q.state \notin {"RUNNING", "SUSPENDED"} /\ FALSE \in BOOLEAN
    BY SMTT(30), <1>6 DEF Active
  <1> HIDE DEF e
  <1>10. Tame(d, e) /\ e \in NodeRecord
    BY <1>7, <1>8, <1>9, FitsIdle, MakeNodeIdleType, Zenon
  <1>11. Fits(node[n], e)
    BY Zenon, <1>7, <1>10, TameFits
  <1>12. nodes \in [Nodes -> NodeRecord] /\ NodesFit(nodes)
    <2>1. \A k \in Nodes : Fits(node[k], node[k])
      BY Zenon, <1>1, FitsFlags, TameFits
    <2> QED
      BY Zenon, <1>1, <1>10, <1>11, <2>1 DEF NodesFit
  <1> HIDE DEF nodes
  <1>13. NodesFit(node')
    BY Zenon, <1>2, <1>6, <1>12, NoRelease
  <1>14. \A i \in Jobs : Shrinks(job[i], job'[i])
    <2>1. Shrinks(job[j], job'[j])
      BY Zenon, EpilogClears
    <2>2. \A i \in Jobs : i # j => job'[i] = job[i]
      BY Zenon, <1>2 DEF FullInv, IInv, TypeOK
    <2> QED
      BY Zenon, <2>1, <2>2, UseShrinks DEF SameUse
  <1> QED
    BY Zenon, <1>13, <1>14, StepUses

\* Every step
LEMMA NextUses ==
  ASSUME Counting, FullInv, FullInv', DownInv, UseInv, Expedited = {}, Requeue \subseteq Batch, [Next]_vars
  PROVE  UseInv'
  <1>1. ASSUME UNCHANGED <<job, node>> PROVE UseInv'
    BY Zenon, <1>1 DEF UseInv, AgreeOK, IsDown, ExclusiveUse, RunningOn, CompletingOn, RunsOn, OnNode, Completing
  <1>2. CASE NodeDownDone
    <2> DEFINE n == down.node
               e == SyncBitmaps(node[n], 0)
    <2>1. n \in Nodes /\ node[n] \in NodeRecord /\ IsDown(node[n])
      BY Zenon, <1>2 DEF FullInv, IInv, TypeOK, NodeDownDone, DownInv
    <2>2. job' = job /\ node' = [node EXCEPT ![n] = e]
      BY Zenon, <1>2 DEF NodeDownDone
    <2>3. Fits(node[n], e)
      BY Zenon, <2>1, FitsDown
    <2> HIDE DEF e
    <2> QED
      BY Zenon, <2>1, <2>2, <2>3, NodeUses
  <1>3. CASE UNCHANGED vars
    BY Zenon, <1>1, <1>3 DEF vars
  <1>4. ASSUME NEW j \in Jobs, JobStep(j) \/ ScanStep(j) PROVE UseInv'
    BY Zenon, <1>4, JobStepUses, ScanStepUses
  <1>5. ASSUME NEW n \in Nodes, NodeStep(n) PROVE UseInv'
    BY Zenon, <1>5, NodeStepUses
  <1>6. ASSUME NEW m \in msgs, Receive(m) \/ LoseMessage(m) PROVE UseInv'
    <2>1. ASSUME NEW again \in BOOLEAN, EpilogComplete(m, again) PROVE UseInv'
      <3>1. CASE EpilogMatches(m, job[m.job])
        BY Zenon, <2>1, <3>1, EpilogUses
      <3>2. CASE ~EpilogMatches(m, job[m.job])
        BY Zenon, <1>1, <2>1, <3>2 DEF EpilogComplete
      <3> QED
        BY Zenon, <3>1, <3>2
    <2>2. ASSUME NEW rc \in {0, 1}, SlurmdTerminateJob(m, rc) \/ LoseMessage(m) PROVE UseInv'
      BY Zenon, <1>1, <2>2 DEF SlurmdTerminateJob, LoseMessage
    <2> QED
      BY Zenon, <1>6, <2>1, <2>2 DEF Receive
  <1> QED
    BY Zenon, <1>2, <1>3, <1>4, <1>5, <1>6 DEF Next

-----------------------------------------------------------------------------
(* The theorems.                                                           *)

\* The invariant holds in every reachable state.
LEMMA UseInvariance == Expedited = {} /\ Requeue \subseteq Batch => (Spec => []UseInv)
  <1> SUFFICES ASSUME Expedited = {}, Requeue \subseteq Batch PROVE Spec => []UseInv
    BY Zenon
  <1>1. Init => UseInv
    <2> SUFFICES ASSUME Init PROVE UseInv
      BY Zenon
    <2>1. \A n \in Nodes : AgreeOK(node[n])
      BY Zenon DEF Init, FreshNode, AgreeOK, IsDown
    <2>2. \A j \in Jobs : job[j].state = "PENDING"
      BY Zenon DEF Init, NewJob
    <2>3. ExclusiveUse /\ \A n \in Nodes, j \in Jobs : ~RunsOn(job[j], n)
      BY Zenon, <2>2 DEF ExclusiveUse, RunningOn, RunsOn
    <2> QED
      BY Zenon, <2>1, <2>2, <2>3 DEF UseInv
  <1>2. FullInv /\ FullInv' /\ DownInv /\ UseInv /\ [Next]_vars => UseInv'
    BY Zenon, SetsCount, NextUses
  <1>3. Spec => []DownInv
    BY Zenon, DownInvariance
  <1> QED
    BY <1>1, <1>2, <1>3, Invariance, PTL DEF Spec

\* A node in service carries COMPLETING exactly while some job completes there
\* and is ALLOCATED exactly while some job runs there, through every order of
\* starts, suspensions, endings, epilogs, failures and returns.  It rests on the
\* exact comp_job_cnt, so that no job may use the expedited requeue, and on DOWN
\* nodes being unused when they return, so that only batch jobs may be requeued.
THEOREM NodeStatesAgree == Expedited = {} /\ Requeue \subseteq Batch => (Spec => []NodeStateAgrees)
  <1> SUFFICES ASSUME Expedited = {}, Requeue \subseteq Batch PROVE Spec => []NodeStateAgrees
    BY Zenon
  <1>1. FullInv /\ UseInv => NodeStateAgrees
    <2> SUFFICES ASSUME FullInv, UseInv, NEW n \in Nodes, ~IsDown(node[n])
                 PROVE  /\ node[n].completing <=> CompletingOn(n) # {}
                        /\ node[n].base = "ALLOCATED" <=> RunningOn(n) # {}
      BY Zenon DEF NodeStateAgrees
    <2>1. /\ node[n].completing <=> node[n].comp_job_cnt # 0
          /\ node[n].base = "ALLOCATED" <=> node[n].run_job_cnt # 0
      BY Zenon DEF UseInv, AgreeOK
    <2>2. /\ node[n].run_job_cnt = Cardinality(RunningOn(n))
          /\ node[n].comp_job_cnt = Cardinality(CompletingOn(n))
      BY Zenon DEF FullInv, RunCountExact, CompCountExact
    <2>3. RunningOn(n) \in SUBSET Jobs /\ CompletingOn(n) \in SUBSET Jobs
      BY Zenon DEF RunningOn, CompletingOn
    <2>4. \A S \in SUBSET Jobs : Cardinality(S) = 0 <=> S = {}
      BY Zenon, SetsCount DEF Counting
    <2> QED
      BY Zenon, <2>1, <2>2, <2>3, <2>4
  <1>2. Spec => []UseInv
    BY Zenon, UseInvariance
  <1> QED
    BY <1>1, <1>2, Invariance, PTL

\* A job with exclusive nodes shares none with a running job or with one that
\* still completes there: share_node_bitmap and idle_node_bitmap keep the scheduler
\* off.  It is so as long as no job is suspended: a suspended job gives its node
\* back to the scheduler, and resumes beside the job that was started meanwhile.
THEOREM ExclusiveJobsAlone ==
          Expedited = {} /\ Requeue \subseteq Batch /\ "suspend" \notin Inputs => (Spec => []ExclusiveUse)
  <1> SUFFICES ASSUME Expedited = {}, Requeue \subseteq Batch, "suspend" \notin Inputs
               PROVE  Spec => []ExclusiveUse
    BY Zenon
  <1>1. UseInv => ExclusiveUse
    BY Zenon DEF UseInv
  <1>2. Spec => []UseInv
    BY Zenon, UseInvariance
  <1> QED
    BY <1>1, <1>2, PTL

=============================================================================
