--------------------------- MODULE JobNodeProofs ----------------------------
(***************************************************************************)
(* The invariant of JobNode, for every set of jobs and nodes and every     *)
(* configuration: the job records are well formed (IInv), the counters of  *)
(* every node agree with the jobs, and only healthy nodes are available;   *)
(* what a step may never do; and that no job uses a DOWN node once         *)
(* set_node_down_ptr() has returned (DownInv).                             *)
(***************************************************************************)
EXTENDS JobNodeLemmas

(* The invariant.  IInv alone is inductive for the job records; the counts *)
(* need it, because a handler subtracts what the job record says.          *)

FullInv ==
  /\ IInv
  /\ \A j \in Jobs : ExpeditingOK(j, job[j])
  /\ \A n \in Nodes : Healthy(node[n])
  /\ RunCountExact
  /\ Expedited = {} => CompCountExact

\* The variables no theorem but type correctness is about.
RestOK == /\ down \in [node : {NULL} \cup Nodes, todo : SUBSET Jobs]
          /\ msgs \subseteq Messages
          /\ procs \in [Nodes -> SUBSET (Jobs \X Nat)]

\* Two sets of jobs that agree except on j differ in size by what j adds.
LEMMA CountMove ==
  ASSUME Counting, NEW j \in Jobs, NEW P \in SUBSET Jobs, NEW Q \in SUBSET Jobs, P \ {j} = Q \ {j}
  PROVE  /\ Cardinality(P) \in Nat /\ Cardinality(Q) \in Nat
         /\ j \in P => Cardinality(P) > 0
         /\ Cardinality(Q) + Bit(j \in P) = Cardinality(P) + Bit(j \in Q)
  <1>1. Cardinality(P) \in Nat /\ Cardinality(Q) \in Nat
    BY Zenon DEF Counting
  <1>2. /\ Cardinality(P \ {j}) = IF j \in P THEN Cardinality(P) - 1 ELSE Cardinality(P)
        /\ Cardinality(Q \ {j}) = IF j \in Q THEN Cardinality(Q) - 1 ELSE Cardinality(Q)
    <2>1. \A S \in SUBSET Jobs : j \notin S => S \ {j} = S
      BY Zenon
    <2> QED
      BY Zenon, <2>1 DEF Counting
  <1>3. j \in P => Cardinality(P) # 0
    BY Zenon DEF Counting
  <1>4. Cardinality(P \ {j}) = Cardinality(Q \ {j})
    BY Zenon
  <1>5. Cardinality(Q) + Bit(j \in P) = Cardinality(P) + Bit(j \in Q)
    BY SMTT(30), <1>1, <1>2, <1>4 DEF Bit
  <1> QED
    BY SMTT(30), <1>1, <1>3, <1>5

\* The counts in terms of the job records.
LEMMA OnNodeSets ==
  ASSUME NEW n \in Nodes
  PROVE  /\ RunningOn(n) = {i \in Jobs : RunsOn(job[i], n)}
         /\ SuspendedOn(n) = {i \in Jobs : SuspendedAt(job[i], n)}
         /\ (\A i \in Jobs : JobOK(job[i])) => CompletingOn(n) = {i \in Jobs : n \in CgSet(job[i])}
  <1>1. /\ RunningOn(n) = {i \in Jobs : RunsOn(job[i], n)}
        /\ SuspendedOn(n) = {i \in Jobs : SuspendedAt(job[i], n)}
    BY Zenon DEF RunningOn, SuspendedOn, RunsOn, SuspendedAt
  <1>2. ASSUME \A i \in Jobs : JobOK(job[i]), NEW i \in Jobs
        PROVE  Completing(job[i]) /\ n \in job[i].node_bitmap_cg <=> n \in CgSet(job[i])
    BY Zenon, <1>2 DEF JobOK, CgSet
  <1> QED
    BY Zenon, <1>1, <1>2 DEF CompletingOn

\* A step of job j, described by StepOK, preserves the invariant.
LEMMA StepPreserves ==
  ASSUME Counting, FullInv, NEW j \in Jobs, NEW q, NEW ns,
         job' = [job EXCEPT ![j] = q], node' = ns,
         StepOK(j, job[j], q, node, ns), RestOK'
  PROVE  FullInv'
  <1>1. /\ job \in [Jobs -> JobRecord] /\ node \in [Nodes -> NodeRecord]
        /\ \A i \in Jobs : JobOK(job[i]) /\ ExpeditingOK(i, job[i])
        /\ \A n \in Nodes : Healthy(node[n])
    BY Zenon DEF FullInv, IInv, TypeOK
  <1>2. /\ q \in JobRecord /\ JobOK(q) /\ ExpeditingOK(j, q) /\ ns \in [Nodes -> NodeRecord]
        /\ \A n \in Nodes : Healthy(ns[n])
        /\ \A n \in Nodes : Counts(job[j], node[n], n) => Moves(job[j], q, node[n], ns[n], n)
    BY Zenon, <1>1 DEF StepOK
  <1>3. job' \in [Jobs -> JobRecord] /\ \A i \in Jobs : job'[i] = IF i = j THEN q ELSE job[i]
    BY Zenon, <1>1, <1>2
  <1>4. \A i \in Jobs : JobOK(job'[i]) /\ ExpeditingOK(i, job'[i])
    BY Zenon, <1>1, <1>2, <1>3
  <1>5. TypeOK'
    BY Zenon, <1>2, <1>3 DEF TypeOK, RestOK
  <1>6. IInv' /\ \A i \in Jobs : ExpeditingOK(i, job[i])'
    BY Zenon, <1>4, <1>5 DEF IInv, JobOK, ExpeditingOK, Expediting, Completing
  <1>7. \A n \in Nodes : Healthy(node[n])'
    BY Zenon, <1>2 DEF Healthy, IsDown
  <1>8. ASSUME NEW n \in Nodes
        PROVE  /\ (node[n].run_job_cnt = Cardinality(RunningOn(n)))'
               /\ (node[n].sus_job_cnt = Cardinality(SuspendedOn(n)))'
               /\ Expedited = {} => (node[n].comp_job_cnt = Cardinality(CompletingOn(n)))'
    <2> DEFINE R == {i \in Jobs : RunsOn(job[i], n)}
               S == {i \in Jobs : SuspendedAt(job[i], n)}
               C == {i \in Jobs : n \in CgSet(job[i])}
               R1 == {i \in Jobs : RunsOn(job'[i], n)}
               S1 == {i \in Jobs : SuspendedAt(job'[i], n)}
               C1 == {i \in Jobs : n \in CgSet(job'[i])}
    <2>1. RunningOn(n) = R /\ SuspendedOn(n) = S /\ CompletingOn(n) = C
      BY Zenon, <1>1, OnNodeSets
    <2>2. RunningOn(n)' = R1 /\ SuspendedOn(n)' = S1
      BY Zenon DEF RunningOn, SuspendedOn, RunsOn, SuspendedAt, OnNode
    <2>3. CompletingOn(n)' = C1
      <3>1. ASSUME NEW i \in Jobs
            PROVE  "COMPLETING" \in job'[i].flags /\ n \in job'[i].node_bitmap_cg <=> n \in CgSet(job'[i])
        <4>1. JobOK(job'[i])
          BY Zenon, <1>4
        <4> QED
          BY Zenon, <4>1 DEF JobOK, CgSet, Completing
      <3> QED
        BY Zenon, <3>1 DEF CompletingOn, Completing
    <2>4. /\ node[n].run_job_cnt = Cardinality(R) /\ node[n].sus_job_cnt = Cardinality(S)
          /\ Expedited = {} => node[n].comp_job_cnt = Cardinality(C)
      BY <2>1, Zenon DEF FullInv, RunCountExact, CompCountExact
    <2>5. /\ R \in SUBSET Jobs /\ R1 \in SUBSET Jobs /\ R \ {j} = R1 \ {j}
          /\ S \in SUBSET Jobs /\ S1 \in SUBSET Jobs /\ S \ {j} = S1 \ {j}
          /\ C \in SUBSET Jobs /\ C1 \in SUBSET Jobs /\ C \ {j} = C1 \ {j}
      BY Zenon, <1>3
    <2>6. /\ j \in R <=> RunsOn(job[j], n)
          /\ j \in S <=> SuspendedAt(job[j], n)
          /\ j \in C <=> n \in CgSet(job[j])
          /\ j \in R1 <=> RunsOn(q, n)
          /\ j \in S1 <=> SuspendedAt(q, n)
          /\ j \in C1 <=> n \in CgSet(q)
      BY Zenon, <1>3
    <2> HIDE DEF R, S, C, R1, S1, C1
    <2>7. /\ Cardinality(R) \in Nat /\ Cardinality(R1) \in Nat /\ (j \in R => Cardinality(R) > 0)
          /\ Cardinality(R1) + Bit(j \in R) = Cardinality(R) + Bit(j \in R1)
      BY Zenon, <2>5, CountMove
    <2>8. /\ Cardinality(S) \in Nat /\ Cardinality(S1) \in Nat /\ (j \in S => Cardinality(S) > 0)
          /\ Cardinality(S1) + Bit(j \in S) = Cardinality(S) + Bit(j \in S1)
      BY Zenon, <2>5, CountMove
    <2>9. /\ Cardinality(C) \in Nat /\ Cardinality(C1) \in Nat /\ (j \in C => Cardinality(C) > 0)
          /\ Cardinality(C1) + Bit(j \in C) = Cardinality(C) + Bit(j \in C1)
      BY Zenon, <2>5, CountMove
    <2>10. Counts(job[j], node[n], n)
      BY Zenon, <2>4, <2>6, <2>7, <2>8, <2>9 DEF Counts
    <2>11. Moves(job[j], q, node[n], ns[n], n)
      BY Zenon, <1>2, <2>10
    <2>12. ns[n].run_job_cnt \in Nat /\ ns[n].sus_job_cnt \in Nat /\ ns[n].comp_job_cnt \in Nat
      BY Zenon, <1>2, CounterType
    <2>13. ns[n].run_job_cnt = Cardinality(R1)
      BY SMTT(30), <2>4, <2>6, <2>7, <2>11, <2>12 DEF Moves, Bit
    <2>14. ns[n].sus_job_cnt = Cardinality(S1)
      BY SMTT(30), <2>4, <2>6, <2>8, <2>11, <2>12 DEF Moves, Bit
    <2>15. Expedited = {} => ns[n].comp_job_cnt = Cardinality(C1)
      BY SMTT(30), <2>4, <2>6, <2>9, <2>11, <2>12 DEF Moves, Bit
    <2> QED
      BY Zenon, <2>2, <2>3, <2>13, <2>14, <2>15
  <1>9. RunCountExact' /\ (Expedited = {} => CompCountExact')
    BY Zenon, <1>8 DEF RunCountExact, CompCountExact
  <1> QED
    BY Zenon, <1>6, <1>7, <1>9 DEF FullInv

\* An event of one node that leaves its counters alone preserves the invariant.
LEMMA NodePreserves ==
  ASSUME FullInv, NEW n \in Nodes, NEW d \in NodeRecord, Healthy(d), SameCounts(node[n], d),
         job' = job, node' = [node EXCEPT ![n] = d], RestOK'
  PROVE  FullInv'
  <1>1. /\ job \in [Jobs -> JobRecord] /\ node \in [Nodes -> NodeRecord]
        /\ \A i \in Nodes : Healthy(node[i])
    BY Zenon DEF FullInv, IInv, TypeOK
  <1>2. node' \in [Nodes -> NodeRecord] /\ \A i \in Nodes : node'[i] = IF i = n THEN d ELSE node[i]
    BY Zenon, <1>1, NodesExcept
  <1>3. IInv' /\ \A i \in Jobs : ExpeditingOK(i, job[i])'
    BY Zenon, <1>1, <1>2 DEF FullInv, IInv, TypeOK, RestOK, JobOK, ExpeditingOK, Expediting, Completing
  <1>4. \A i \in Nodes : Healthy(node[i])'
    BY Zenon, <1>1, <1>2 DEF Healthy, IsDown
  <1>5. \A i \in Nodes : /\ RunningOn(i)' = RunningOn(i) /\ SuspendedOn(i)' = SuspendedOn(i)
                         /\ CompletingOn(i)' = CompletingOn(i)
    BY Zenon DEF RunningOn, SuspendedOn, CompletingOn, OnNode, Completing
  <1>6. \A i \in Nodes : SameCounts(node[i], node'[i])
    BY Zenon, <1>2 DEF SameCounts
  <1>7. RunCountExact' /\ (Expedited = {} => CompCountExact')
    BY Zenon, <1>5, <1>6 DEF FullInv, RunCountExact, CompCountExact, SameCounts
  <1> QED
    BY Zenon, <1>3, <1>4, <1>7 DEF FullInv

\* Nothing but messages and processes changes.
LEMMA RestPreserves ==
  ASSUME FullInv, job' = job, node' = node, RestOK'
  PROVE  FullInv'
  <1>1. IInv' /\ \A i \in Jobs : ExpeditingOK(i, job[i])'
    BY Zenon DEF FullInv, IInv, TypeOK, RestOK, JobOK, ExpeditingOK, Expediting, Completing
  <1>2. \A i \in Nodes : Healthy(node[i])'
    BY Zenon DEF FullInv, Healthy, IsDown
  <1>3. \A i \in Nodes : /\ RunningOn(i)' = RunningOn(i) /\ SuspendedOn(i)' = SuspendedOn(i)
                         /\ CompletingOn(i)' = CompletingOn(i)
    BY Zenon DEF RunningOn, SuspendedOn, CompletingOn, OnNode, Completing
  <1>4. RunCountExact' /\ (Expedited = {} => CompCountExact')
    BY Zenon, <1>3 DEF FullInv, RunCountExact, CompCountExact
  <1> QED
    BY Zenon, <1>1, <1>2, <1>4 DEF FullInv

\* TERMINATE_JOB requests go to nodes of the job.
LEMMA MsgsTyped ==
  ASSUME NEW j \in Jobs, NEW r \in JobRecord, NEW S \in SUBSET Nodes
  PROVE  /\ [type : {"TERMINATE"}, job : {j}, node : S, sluid : {r.sluid}, rc : {0}] \subseteq Messages
         /\ EndMsgs(j, r) \subseteq Messages /\ ActiveMsgs(j, r) \subseteq Messages
         /\ r.node_bitmap_cg \in SUBSET Nodes => TerminateMsgs(j, r) \subseteq Messages
  <1>1. ASSUME NEW x \in JobRecord, NEW T \in SUBSET Nodes
        PROVE  [type : {"TERMINATE"}, job : {j}, node : T, sluid : {x.sluid}, rc : {0}] \subseteq Messages
    <2>1. x.sluid \in Nat
      BY Zenon DEF JobRecord
    <2> QED
      BY Zenon, <2>1 DEF Messages
  <1>2. ASSUME NEW x \in JobRecord, x.node_bitmap_cg \in SUBSET Nodes
        PROVE  TerminateMsgs(j, x) \subseteq Messages
    BY Zenon, <1>1, <1>2 DEF TerminateMsgs
  <1>3. BuildCgBitmap(r) \in JobRecord /\ BuildCgBitmap(r).node_bitmap_cg \in SUBSET Nodes
    BY BuildCgBitmapFacts, Zenon
  <1>4. EndMsgs(j, r) \subseteq Messages
    BY Zenon, <1>2, <1>3 DEF EndMsgs
  <1> QED
    BY Zenon, <1>1, <1>2, <1>4 DEF ActiveMsgs

\* launch_job() starts processes of known incarnations.
LEMMA LaunchTyped ==
  ASSUME NEW j \in Jobs, NEW r \in JobRecord, NEW now, RestOK, Launch(j, r, now)
  PROVE  procs' \in [Nodes -> SUBSET (Jobs \X Nat)]
  <1>1. <<j, r.sluid>> \in Jobs \X Nat
    BY Zenon DEF JobRecord
  <1> QED
    BY Zenon, <1>1 DEF RestOK, Launch

\* A handler of job j
LEMMA HandlePreserves ==
  ASSUME Counting, FullInv, RestOK, NEW j \in Jobs, NEW q, NEW ns, NEW sent, sent \subseteq Messages,
         Handle(j, q, ns, sent), StepOK(j, job[j], q, node, ns),
         procs' \in [Nodes -> SUBSET (Jobs \X Nat)]
  PROVE  FullInv'
  <1>1. RestOK'
    BY Zenon DEF RestOK, Handle
  <1> QED
    BY <1>1, StepPreserves, Zenon DEF Handle

\* The scan after a node failure, at job j
LEMMA ScanPreserves ==
  ASSUME Counting, FullInv, RestOK, NEW j \in Jobs, NEW q, NEW ns, NEW sent, sent \subseteq Messages,
         Scan(j, q, ns, sent), StepOK(j, job[j], q, node, ns)
  PROVE  FullInv'
  <1>1. RestOK'
    BY Zenon DEF RestOK, Scan
  <1> QED
    BY <1>1, StepPreserves, Zenon DEF Scan

\* The initial state
LEMMA InitFull ==
  ASSUME Counting
  PROVE  Init => FullInv
  <1> SUFFICES ASSUME Init PROVE FullInv
    BY Zenon
  <1>1. ASSUME NEW j \in Jobs
        PROVE  /\ NewJob(j) \in JobRecord /\ JobOK(NewJob(j)) /\ ExpeditingOK(j, NewJob(j))
               /\ NewJob(j).state = "PENDING" /\ NewJob(j).flags = {}
    <2> DEFINE b == IF j \in Batch THEN 1 ELSE 0
    <2>1. /\ b \in Nat /\ "PENDING" \in JobBase /\ {} \in SUBSET JobFlags /\ NULL \in Bitmaps
          /\ 0 \in Nat /\ "zero" \in ExitCodes /\ 1 \in Nat \ {0}
      BY SMTT(30) DEF JobBase, Bitmaps, ExitCodes
    <2>2. NewJob(j) \in JobRecord
      <3> DEFINE r ==
              [ state |-> "PENDING", flags |-> {}, node_bitmap |-> NULL,
                node_bitmap_cg |-> NULL, node_cnt |-> 0, prolog_running |-> FALSE,
                epilog_running |-> FALSE, epilog_failed |-> FALSE, exit_code |-> "zero",
                held |-> FALSE, batch_flag |-> b, launched |-> FALSE, sluid |-> 1 ]
      <3>1. NewJob(j) = r
        BY Zenon DEF NewJob
      <3> HIDE DEF b
      <3>2. r \in JobRecord
        BY <2>1, Booleans, Zenon DEF JobRecord
      <3> QED
        BY Zenon, <3>1, <3>2
    <2>3. /\ NewJob(j).state = "PENDING" /\ NewJob(j).flags = {}
          /\ NewJob(j).node_bitmap_cg = NULL /\ NewJob(j).node_cnt = 0
          /\ ~NewJob(j).epilog_running
      BY Zenon DEF NewJob
    <2> QED
      BY Zenon, <2>2, <2>3 DEF JobOK, Active, Completing, ExpeditingOK, Expediting
  <1>2. job \in [Jobs -> JobRecord] /\ \A j \in Jobs : job[j] = NewJob(j)
    BY Zenon, <1>1 DEF Init
  <1>3. node \in [Nodes -> NodeRecord] /\ \A n \in Nodes : node[n] = FreshNode
    BY Zenon, FreshNodeFacts DEF Init
  <1>4. RestOK
    BY Zenon DEF Init, RestOK
  <1>5. IInv /\ \A j \in Jobs : ExpeditingOK(j, job[j])
    BY Zenon, <1>1, <1>2, <1>3, <1>4 DEF IInv, TypeOK, RestOK
  <1>6. \A n \in Nodes : RunningOn(n) = {} /\ SuspendedOn(n) = {} /\ CompletingOn(n) = {}
    BY Zenon, <1>1, <1>2 DEF RunningOn, SuspendedOn, CompletingOn, Completing
  <1>7. RunCountExact /\ CompCountExact
    BY Zenon, <1>3, <1>6, FreshNodeFacts DEF Counting, RunCountExact, CompCountExact
  <1> QED
    BY Zenon, <1>3, <1>5, <1>7, FreshNodeFacts DEF FullInv

-----------------------------------------------------------------------------
(* The actions.                                                            *)

\* What the invariant says of one job and of the node table.
LEMMA JobFacts ==
  ASSUME FullInv, NEW j \in Jobs
  PROVE  /\ job[j] \in JobRecord /\ JobOK(job[j]) /\ ExpeditingOK(j, job[j])
         /\ node \in [Nodes -> NodeRecord] /\ RestOK
  BY Zenon DEF FullInv, IInv, TypeOK, RestOK

\* The empty set of messages is well typed.
LEMMA NoMsgs == {} \subseteq Messages
  BY Zenon

\* Every action on job j preserves the invariant.
LEMMA JobStepPreserves ==
  ASSUME Counting, FullInv, NEW j \in Jobs, JobStep(j)
  PROVE  FullInv'
  <1>1. /\ job[j] \in JobRecord /\ JobOK(job[j]) /\ ExpeditingOK(j, job[j])
        /\ node \in [Nodes -> NodeRecord] /\ RestOK
    BY Zenon, JobFacts
  <1>2. UNCHANGED procs => procs' \in [Nodes -> SUBSET (Jobs \X Nat)]
    BY Zenon, <1>1 DEF RestOK
  <1>3. /\ "CANCELLED" \in JobBase \ Active /\ "TIMEOUT" \in JobBase \ Active
        /\ "PENDING" \in JobBase \ Active /\ job[j].exit_code \in ExitCodes
    BY Zenon, <1>1 DEF JobBase, Finished, Active, JobRecord
  <1>4. EndMsgs(j, job[j]) \subseteq Messages /\ ActiveMsgs(j, job[j]) \subseteq Messages
    BY Zenon, <1>1, MsgsTyped
  <1>5. ASSUME NEW ns \in SUBSET Nodes, Start(j, ns) PROVE FullInv'
    <2> DEFINE r == StartJob(job[j], ns)
               ms == AllocateNodes(j, ns, node)
    <2>1. /\ Runnable(job[j]) /\ Cardinality(ns) = NodesReq[j]
          /\ Handle(j, r, ms, {}) /\ Launch(j, r, r.launched)
      BY <1>5, Zenon DEF Start
    <2>2. StepOK(j, job[j], r, node, ms)
      BY Zenon, <1>1, <2>1, StepStart
    <2> HIDE DEF r, ms
    <2>3. r \in JobRecord
      BY Zenon, <2>2 DEF StepOK
    <2>4. procs' \in [Nodes -> SUBSET (Jobs \X Nat)]
      BY Zenon, <1>1, <2>1, <2>3, LaunchTyped
    <2> QED
      BY SMTT(30), <1>1, <2>1, <2>2, <2>4, NoMsgs, HandlePreserves
  <1>6. ASSUME NEW ok \in BOOLEAN, PrologSlurmctldDone(j, ok) PROVE FullInv'
    <2> DEFINE r == job[j]
               requeues == ~ok /\ RequeueAllowed(j, r)
               kills    == ~ok /\ ~RequeueAllowed(j, r) /\ ~(j \in Requeue \cap Batch)
               q == CASE requeues -> RequeueJob(j, r, "plain", node)
                      [] kills    -> CancelJob(j, r, node)
                      [] OTHER    -> r
               t == PrologRunningDecr(q)
               ends == (requeues \/ kills) /\ r.state \in Active
               ns == IF ends THEN EndNodes(j, r, "CANCELLED", node) ELSE node
    <2>1. Handle(j, t, ns, {}) /\ Launch(j, t, t.launched /\ ~r.launched)
      BY <1>6, Zenon DEF PrologSlurmctldDone
    <2>2. StepOK(j, r, q, node, ns)
      <3>1. CASE requeues
        <4>1. q = RequeueJob(j, r, "plain", node) /\ ns = ActiveNodes(j, r, "CANCELLED", node)
          BY Zenon, <3>1 DEF ActiveNodes
        <4>2. StepOK(j, r, RequeueJob(j, r, "plain", node), node, ActiveNodes(j, r, "CANCELLED", node))
          BY Zenon, <1>1, <1>3, <3>1, StepRequeue
        <4> QED
          BY Zenon, <4>1, <4>2
      <3>2. CASE ~requeues /\ kills
        <4>1. q = CancelJob(j, r, node) /\ ns = ActiveNodes(j, r, "CANCELLED", node)
          BY Zenon, <3>2 DEF ActiveNodes
        <4>2. StepOK(j, r, CancelJob(j, r, node), node, ActiveNodes(j, r, "CANCELLED", node))
          BY Zenon, <1>1, StepCancel
        <4> QED
          BY Zenon, <4>1, <4>2
      <3>3. CASE ~requeues /\ ~kills
        <4>1. q = r /\ ns = node
          BY Zenon, <3>3
        <4>2. StepOK(j, r, r, node, node)
          BY Zenon, <1>1, StepJobOnly
        <4> QED
          BY Zenon, <4>1, <4>2
      <3> QED
        BY Zenon, <3>1, <3>2, <3>3
    <2> HIDE DEF q, ns
    <2>3. q \in JobRecord /\ JobOK(q) /\ ExpeditingOK(j, q)
      BY Zenon, <2>2 DEF StepOK
    <2>4. /\ t \in JobRecord /\ t.state = q.state /\ t.node_bitmap = q.node_bitmap
          /\ JobOK(q) => JobOK(t)
          /\ ExpeditingOK(j, q) => ExpeditingOK(j, t)
          /\ CgSet(t) = CgSet(q)
      BY Zenon, <2>3, PrologRunningDecrFacts
    <2> HIDE DEF t
    <2>5. StepOK(j, r, t, node, ns)
      BY Zenon, <2>2, <2>3, <2>4, StepSame
    <2>6. procs' \in [Nodes -> SUBSET (Jobs \X Nat)]
      BY Zenon, <1>1, <2>1, <2>4, LaunchTyped
    <2> QED
      BY SMTT(30), <1>1, <2>1, <2>5, <2>6, NoMsgs, HandlePreserves
  <1>7. CASE Cancel(j)
    <2>1. StepOK(j, job[j], CancelJob(j, job[j], node), node, ActiveNodes(j, job[j], "CANCELLED", node))
      BY Zenon, <1>1, StepCancel
    <2> QED
      BY Zenon, <1>1, <1>2, <1>4, <1>7, <2>1, HandlePreserves DEF Cancel
  <1>8. CASE TimeLimit(j)
    <2>1. job[j].state \in Active
      BY Zenon, <1>8 DEF TimeLimit, Active
    <2>2. StepOK(j, job[j], EndJob(j, job[j], "TIMEOUT", job[j].exit_code, node), node,
                 EndNodes(j, job[j], "TIMEOUT", node))
      BY Zenon, <1>1, <1>3, <2>1, StepKilled
    <2> QED
      BY Zenon, <1>1, <1>2, <1>4, <1>8, <2>2, HandlePreserves DEF TimeLimit
  <1>9. CASE LaunchFailure(j)
    <2>1. StepOK(j, job[j], RelaunchJob(j, job[j], node), node, EndNodes(j, job[j], "PENDING", node))
      BY Zenon, <1>1, <1>9, StepRelaunch DEF LaunchFailure
    <2> QED
      BY Zenon, <1>1, <1>2, <1>4, <1>9, <2>1, HandlePreserves DEF LaunchFailure
  <1>10. ASSUME NEW code \in ExitCodes, JobComplete(j, code) PROVE FullInv'
    <2>1. StepOK(j, job[j], CompleteJob(j, job[j], code, node), node,
                 ActiveNodes(j, job[j], FinalState(code), node))
      BY Zenon, <1>1, StepComplete
    <2> QED
      BY Zenon, <1>1, <1>2, <1>4, <1>10, <2>1, HandlePreserves DEF JobComplete
  <1>11. ASSUME NEW kind \in {"plain", "hold", "launch_failed"}, RequeueOp(j, kind) PROVE FullInv'
    <2>1. StepOK(j, job[j], RequeueJob(j, job[j], kind, node), node,
                 ActiveNodes(j, job[j], "PENDING", node))
      BY Zenon, <1>1, <1>3, <1>11, StepRequeue DEF RequeueOp
    <2> QED
      BY Zenon, <1>1, <1>2, <1>4, <1>11, <2>1, HandlePreserves DEF RequeueOp
  <1>12. CASE Release(j)
    <2> DEFINE q == [job[j] EXCEPT !.held = FALSE]
    <2>1. q \in JobRecord
      BY <1>1, Booleans, Zenon DEF JobRecord
    <2>2. SameJob(job[j], q)
      BY Zenon, <1>1 DEF JobRecord, SameJob, SameNodes
    <2>3. Handle(j, q, node, {})
      BY Zenon, <1>12 DEF Release
    <2> HIDE DEF q
    <2>4. JobOK(q) /\ ExpeditingOK(j, q) /\ CgSet(q) = CgSet(job[j])
      BY Zenon, <1>1, <2>2, SameJobFacts
    <2>5. StepOK(j, job[j], q, node, node)
      BY Zenon, <1>1, <2>1, <2>2, <2>4, StepJobOnly DEF SameJob, SameNodes
    <2> QED
      BY SMTT(30), <1>1, <1>2, <1>12, <2>3, <2>5, NoMsgs, HandlePreserves DEF Release
  <1>13. CASE Suspend(j)
    <2> DEFINE ns == [n \in Nodes |-> IF OnNode(job[j], n)
                                      THEN SuspendJobNode(node[n], j \in Exclusive) ELSE node[n]]
    <2>1. job[j].state = "RUNNING" /\ Handle(j, SuspendJob(job[j]), ns, {})
      BY Zenon, <1>13 DEF Suspend
    <2>2. StepOK(j, job[j], SuspendJob(job[j]), node, ns)
      BY Zenon, <1>1, <2>1, StepSuspend
    <2> HIDE DEF ns
    <2> QED
      BY SMTT(30), <1>1, <1>2, <1>13, <2>1, <2>2, NoMsgs, HandlePreserves DEF Suspend
  <1>14. CASE Resume(j)
    <2> DEFINE ns == [n \in Nodes |-> IF OnNode(job[j], n)
                                      THEN ResumeJobNode(node[n], j \in Exclusive) ELSE node[n]]
               q == [JobStateSet(job[j], "RUNNING", {}) EXCEPT !.held = FALSE]
    <2>1. job[j].state = "SUSPENDED" /\ Handle(j, q, ns, {})
      BY Zenon, <1>14 DEF Resume
    <2>2. StepOK(j, job[j], q, node, ns)
      BY Zenon, <1>1, <2>1, StepResume
    <2> HIDE DEF ns, q
    <2> QED
      BY SMTT(30), <1>1, <1>2, <1>14, <2>1, <2>2, NoMsgs, HandlePreserves DEF Resume
  <1>15. CASE EpilogSlurmctldDone(j)
    <2> DEFINE e == [job[j] EXCEPT !.epilog_running = FALSE]
    <2>1. /\ Completing(e) => StepOK(j, job[j], CleanupRequeue(j, e), node, CleanupRequeueNodes(j, e, node))
          /\ ~Completing(e) => StepOK(j, job[j], e, node, node)
      BY Zenon, <1>1, StepEpilogSlurmctld
    <2>2. /\ Completing(e) => Handle(j, CleanupRequeue(j, e), CleanupRequeueNodes(j, e, node), {})
          /\ ~Completing(e) => Handle(j, e, node, {})
          /\ UNCHANGED procs
      BY Zenon, <1>15 DEF EpilogSlurmctldDone
    <2> HIDE DEF e
    <2> QED
      BY SMTT(30), <1>1, <1>2, <2>1, <2>2, NoMsgs, HandlePreserves
  <1>16. CASE ReKillJob(j)
    <2> DEFINE r == job[j]
               lost == r.node_bitmap_cg \cap DownNodes(node)
               q == [r EXCEPT !.node_bitmap_cg = @ \ lost, !.node_cnt = @ - Cardinality(lost)]
               ns == [n \in Nodes |->
                        IF n \in lost THEN [node[n] EXCEPT !.comp_job_cnt = Decr(@)]
                        ELSE node[n]]
               S == ReKillTargets(q.node_bitmap_cg)
               sent == [type : {"TERMINATE"}, job : {j}, node : S, sluid : {r.sluid}, rc : {0}]
    <2>1. Completing(r)
      BY Zenon, <1>16 DEF ReKillJob
    <2>2. /\ StepOK(j, r, CleanupRequeue(j, q), node, CleanupRequeueNodes(j, q, ns))
          /\ StepOK(j, r, q, node, ns)
          /\ q.node_bitmap_cg \in SUBSET Nodes
      BY <1>1, <2>1, StepReKill, Zenon
    <2>3. UNCHANGED procs
          /\ \/ Handle(j, CleanupRequeue(j, q), CleanupRequeueNodes(j, q, ns), sent)
             \/ Handle(j, q, ns, sent)
      BY Zenon, <1>16 DEF ReKillJob
    <2> HIDE DEF q, ns
    <2>4. S \in SUBSET Nodes
      BY Zenon, <2>2 DEF ReKillTargets
    <2> HIDE DEF S
    <2>5. sent \subseteq Messages
      BY Zenon, <1>1, <2>4, MsgsTyped
    <2> HIDE DEF sent, r
    <2>6. CASE Handle(j, CleanupRequeue(j, q), CleanupRequeueNodes(j, q, ns), sent)
      BY Zenon, <1>1, <1>2, <2>2, <2>3, <2>5, <2>6, HandlePreserves DEF r
    <2>7. CASE Handle(j, q, ns, sent)
      BY Zenon, <1>1, <1>2, <2>2, <2>3, <2>5, <2>7, HandlePreserves DEF r
    <2> QED
      BY Zenon, <2>3, <2>6, <2>7
  <1> QED
    BY Zenon, <1>5, <1>6, <1>7, <1>8, <1>9, <1>10, <1>11, <1>12, <1>13, <1>14, <1>15, <1>16 DEF JobStep

\* Every step of the scan after a node failure preserves the invariant.
LEMMA ScanStepPreserves ==
  ASSUME Counting, FullInv, NEW j \in Jobs, ScanStep(j)
  PROVE  FullInv'
  <1> DEFINE r == job[j]
             n == down.node
  <1>1. /\ r \in JobRecord /\ JobOK(r) /\ ExpeditingOK(j, r)
        /\ node \in [Nodes -> NodeRecord] /\ RestOK
    BY Zenon, JobFacts
  <1>2. "NODE_FAIL" \in JobBase \ Active /\ "signal" \in ExitCodes
    BY Zenon DEF JobBase, Finished, Active, ExitCodes
  <1>3. CASE ScanSkips(j)
    <2>1. StepOK(j, r, r, node, node)
      BY Zenon, <1>1, StepJobOnly
    <2> QED
      BY SMTT(30), <1>1, <1>3, <2>1, NoMsgs, ScanPreserves DEF ScanSkips
  <1>4. CASE ScanCompleting(j)
    <2> DEFINE q == [r EXCEPT !.node_bitmap_cg = @ \ {n}, !.node_cnt = Decr(@)]
               ms == CleanupRequeueNodes(j, q, node)
               ns == [ms EXCEPT ![n].comp_job_cnt = Decr(@)]
               c == CleanupRequeue(j, q)
    <2>1. Completing(r) /\ n \in r.node_bitmap_cg /\ Scan(j, c, ns, {})
      BY Zenon, <1>4 DEF ScanCompleting
    <2>2. StepOK(j, r, c, node, ns)
      BY <1>1, <2>1, StepScanCompleting, Zenon
    <2> HIDE DEF c, ns
    <2> QED
      BY SMTT(30), <1>1, <2>1, <2>2, NoMsgs, ScanPreserves
  <1>5. CASE ScanExcises(j)
    <2> DEFINE left == ExcisedBitmap(r, n)
               fresh == r.node_bitmap_cg = NULL \/ n \in r.node_bitmap_cg
               q == [r EXCEPT !.node_bitmap = left, !.node_cnt = Cardinality(left)]
               ns == [node EXCEPT ![n] = MakeNodeIdle(@, fresh, r.state, FALSE, j \in OwnerExclusive)]
    <2>1. /\ r.state \in Active /\ OnNode(r, n) /\ r.node_cnt > 1 /\ Scan(j, q, ns, {})
      BY Zenon, <1>5 DEF ScanExcises, ScanActive, HitBy, Survives
    <2>2. n \in Nodes
      BY SMTT(30), <1>1, <2>1, NullBitmap DEF OnNode, JobRecord
    <2>3. StepOK(j, r, q, node, ns)
      BY <1>1, <2>1, <2>2, StepExcise, Zenon
    <2> HIDE DEF q, ns
    <2> QED
      BY SMTT(30), <1>1, <2>1, <2>3, NoMsgs, ScanPreserves
  <1>6. CASE ScanRequeues(j)
    <2> DEFINE q == BuildCgBitmap([JobStateSet(r, "NODE_FAIL", {}) EXCEPT !.exit_code = "signal"])
               t == SetRequeuedJobPendingCompleting(DeallocateJob(j, q, node))
               x == j \in Expedited
               s == [t EXCEPT !.exit_code = "zero",
                              !.flags = IF x THEN @ \cup {"EXPEDITING"} ELSE @,
                              !.epilog_failed = @ \/ x]
               ns == DeallocateNodes(j, q, node, r.state = "SUSPENDED")
               sent == TerminateMsgs(j, q)
    <2>1. /\ r.state \in Active
          /\ \/ Scan(j, BatchRequeueFini(j, s), ExpediteRelease(s, ns), sent)
             \/ Scan(j, s, ns, sent)
      BY Zenon, <1>6 DEF ScanRequeues, ScanActive
    <2>2. /\ q \in JobRecord /\ q.node_bitmap_cg \in SUBSET Nodes
          /\ StepOK(j, r, s, node, ns)
          /\ StepOK(j, r, BatchRequeueFini(j, s), node, ExpediteRelease(s, ns))
      BY <1>1, <2>1, StepScanRequeues, Zenon
    <2>3. sent \subseteq Messages
      <3> HIDE DEF q
      <3> QED
        BY <2>2, MsgsTyped, Zenon
    <2> HIDE DEF s, ns, sent
    <2>4. CASE Scan(j, s, ns, sent)
      BY Zenon, <1>1, <2>2, <2>3, <2>4, ScanPreserves
    <2>5. CASE Scan(j, BatchRequeueFini(j, s), ExpediteRelease(s, ns), sent)
      BY Zenon, <1>1, <2>2, <2>3, <2>5, ScanPreserves
    <2> QED
      BY Zenon, <2>1, <2>4, <2>5
  <1>7. CASE ScanKills(j)
    <2>1. r.state \in Active
      BY Zenon, <1>7 DEF ScanKills, ScanActive
    <2>2. StepOK(j, r, EndJob(j, r, "NODE_FAIL", "signal", node), node,
                 EndNodes(j, r, "NODE_FAIL", node))
      BY Zenon, <1>1, <1>2, <2>1, StepKilled
    <2>3. EndMsgs(j, r) \subseteq Messages
      BY Zenon, <1>1, MsgsTyped
    <2> QED
      BY Zenon, <1>1, <1>7, <2>2, <2>3, ScanPreserves DEF ScanKills
  <1> QED
    BY Zenon, <1>3, <1>4, <1>5, <1>6, <1>7 DEF ScanStep

\* Every event of a node preserves the invariant.
LEMMA NodeStepPreserves ==
  ASSUME FullInv, NEW n \in Nodes, NodeStep(n)
  PROVE  FullInv'
  <1> DEFINE d == node[n]
  <1>1. node \in [Nodes -> NodeRecord] /\ RestOK /\ d \in NodeRecord /\ Healthy(d)
    BY Zenon DEF FullInv, IInv, TypeOK, RestOK
  <1>2. ASSUME NEW e, NEW input, NodeEvent(input, n, e),
               e \in NodeRecord, Healthy(e), SameCounts(d, e)
        PROVE  FullInv'
    <2>1. job' = job /\ node' = [node EXCEPT ![n] = e] /\ RestOK'
      BY Zenon, <1>1, <1>2 DEF NodeEvent, RestOK
    <2> QED
      BY <1>2, <2>1, NodePreserves, Zenon
  <1>3. /\ NodeNotResp(d) \in NodeRecord /\ Healthy(NodeNotResp(d)) /\ SameCounts(d, NodeNotResp(d))
        /\ DrainNode(d) \in NodeRecord /\ Healthy(DrainNode(d)) /\ SameCounts(d, DrainNode(d))
        /\ MakeNodeDown(d) \in NodeRecord /\ Healthy(MakeNodeDown(d)) /\ SameCounts(d, MakeNodeDown(d))
    BY <1>1, MakeNodeDownType, HealthyKept, CountsKept, Zenon
  <1>4. /\ NodeDidResp(d, ReturnToService) \in NodeRecord
        /\ Healthy(NodeDidResp(d, ReturnToService))
        /\ SameCounts(d, NodeDidResp(d, ReturnToService))
        /\ ValidateNodeSpecs(d, ReturnToService) \in NodeRecord
        /\ Healthy(ValidateNodeSpecs(d, ReturnToService))
        /\ SameCounts(d, ValidateNodeSpecs(d, ReturnToService))
    BY <1>1, NodeDidRespType, ValidateNodeSpecsType, HealthyKept, HealthyReturn, CountsKept, Zenon
  <1>5. /\ ResumeNode(d) \in NodeRecord /\ SameCounts(d, ResumeNode(d))
        /\ IsDown(d) \/ d.drain => Healthy(ResumeNode(d))
    BY <1>1, ResumeNodeType, HealthyReturn, CountsKept, Zenon
  <1>6. CASE NotResponding(n)
    BY <1>2, <1>3, <1>6, Zenon DEF NotResponding
  <1>7. CASE Responding(n)
    BY <1>2, <1>4, <1>7, Zenon DEF Responding
  <1>8. CASE Register(n)
    BY <1>2, <1>4, <1>8, Zenon DEF Register
  <1>9. CASE Drain(n)
    BY <1>2, <1>3, <1>9, Zenon DEF Drain
  <1>10. CASE UndoDrain(n)
    BY <1>2, <1>5, <1>10, Zenon DEF UndoDrain
  <1>11. CASE SetNodeDown(n)
    <2>1. job' = job /\ node' = [node EXCEPT ![n] = MakeNodeDown(d)] /\ RestOK'
      BY Zenon, <1>1, <1>11 DEF SetNodeDown, RestOK
    <2> QED
      BY <1>3, <2>1, NodePreserves, Zenon
  <1> QED
    BY Zenon, <1>6, <1>7, <1>8, <1>9, <1>10, <1>11 DEF NodeStep

\* The delivery or loss of a message preserves the invariant.
LEMMA MessagePreserves ==
  ASSUME Counting, FullInv, NEW m \in msgs, Receive(m) \/ LoseMessage(m)
  PROVE  FullInv'
  <1>1. RestOK /\ m \in Messages /\ m.job \in Jobs /\ m.node \in Nodes
    BY Zenon DEF FullInv, IInv, TypeOK, RestOK, Messages
  <1>2. ASSUME NEW rc \in {0, 1}, SlurmdTerminateJob(m, rc) PROVE FullInv'
    <2>1. [m EXCEPT !.type = "EPILOG", !.rc = rc] \in Messages
      BY <1>1, Zenon DEF Messages
    <2>2. {p \in procs[m.node] : p[1] # m.job} \in SUBSET (Jobs \X Nat)
      BY Zenon, <1>1 DEF RestOK
    <2>3. RestOK' /\ job' = job /\ node' = node
      BY Zenon, <1>1, <1>2, <2>1, <2>2 DEF RestOK, SlurmdTerminateJob
    <2> QED
      BY Zenon, <2>3, RestPreserves
  <1>3. ASSUME NEW again \in BOOLEAN, EpilogComplete(m, again) PROVE FullInv'
    <2> DEFINE j == m.job
               n == m.node
               r == [job[j] EXCEPT !.epilog_failed = @ \/ m.rc # 0]
               q == NodeEpilogDone(j, r, n)
               d == IF m.rc # 0 THEN DrainNode(node[n]) ELSE node[n]
               nodes == [node EXCEPT ![n] = MakeNodeIdle(d, n \in r.node_bitmap_cg, q.state,
                                                         Expediting(q), j \in OwnerExclusive)]
               t == IF Completing(q) THEN q ELSE BatchRequeueFini(j, q)
               ns == IF Completing(q) THEN nodes ELSE ExpediteRelease(q, nodes)
    <2>1. RestOK'
      BY Zenon, <1>1, <1>3 DEF RestOK, EpilogComplete
    <2>2. CASE EpilogMatches(m, job[j])
      <3>1. job' = [job EXCEPT ![j] = t] /\ node' = ns
        BY <1>3, <2>2, Zenon DEF EpilogComplete
      <3>2. /\ job[j] \in JobRecord /\ JobOK(job[j]) /\ ExpeditingOK(j, job[j])
            /\ node \in [Nodes -> NodeRecord] /\ ~EpilogIgnored(job[j])
        BY Zenon, <1>1, <2>2, JobFacts DEF EpilogMatches
      <3> DEFINE failed == job[j].epilog_failed \/ m.rc # 0
      <3>3. failed \in BOOLEAN
        BY Zenon
      <3>4. r = [job[j] EXCEPT !.epilog_failed = failed]
        BY Zenon
      <3> HIDE DEF failed
      <3>5. r \in JobRecord
        BY <3>2, <3>3, <3>4, ZenonT(30) DEF JobRecord
      <3>6. SameJob(job[j], r)
        BY Zenon, <3>2, <3>4 DEF JobRecord, SameJob, SameNodes
      <3>7. d \in NodeRecord /\ (Healthy(node[n]) => Healthy(d)) /\ SameCounts(node[n], d)
        <4>1. node[n] \in NodeRecord
          BY Zenon, <1>1, <3>2
        <4>2. /\ DrainNode(node[n]) \in NodeRecord
              /\ Healthy(node[n]) => Healthy(DrainNode(node[n]))
              /\ SameCounts(node[n], DrainNode(node[n]))
          BY <4>1, MakeNodeDownType, HealthyKept, CountsKept, Zenon
        <4> QED
          BY Zenon, <4>1, <4>2 DEF SameCounts
      <3> HIDE DEF r, d
      <3>8. /\ StepOK(j, job[j], q, node, nodes)
            /\ StepOK(j, job[j], BatchRequeueFini(j, q), node, ExpediteRelease(q, nodes))
        BY <1>1, <3>2, <3>5, <3>6, <3>7, StepEpilogComplete, Zenon
      <3> HIDE DEF q, nodes
      <3>9. StepOK(j, job[j], t, node, ns)
        BY Zenon, <3>8
      <3> HIDE DEF t, ns
      <3> QED
        BY <1>1, <2>1, <3>1, <3>9, StepPreserves, Zenon
    <2>3. CASE ~EpilogMatches(m, job[j])
      <3>1. job' = job /\ node' = node
        BY Zenon, <1>3, <2>3 DEF EpilogComplete
      <3> QED
        BY Zenon, <2>1, <3>1, RestPreserves
    <2> QED
      BY Zenon, <2>2, <2>3
  <1>4. CASE LoseMessage(m)
    <2>1. RestOK' /\ job' = job /\ node' = node
      BY Zenon, <1>1, <1>4 DEF RestOK, LoseMessage
    <2> QED
      BY Zenon, <2>1, RestPreserves
  <1> QED
    BY Zenon, <1>2, <1>3, <1>4 DEF Receive

\* The invariant is inductive.
LEMMA NextPreserves ==
  ASSUME Counting, FullInv, [Next]_vars
  PROVE  FullInv'
  <1>1. RestOK
    BY Zenon DEF FullInv, IInv, TypeOK, RestOK
  <1>2. CASE NodeDownDone
    <2> DEFINE n == down.node
               d == node[n]
               e == SyncBitmaps(d, 0)
    <2>1. n \in Nodes
      BY Zenon, <1>1, <1>2 DEF RestOK, NodeDownDone
    <2>2. d \in NodeRecord /\ Healthy(d)
      BY Zenon, <2>1 DEF FullInv, IInv, TypeOK
    <2>3. e \in NodeRecord /\ Healthy(e) /\ SameCounts(d, e)
      BY <2>2, SyncBitmapsType, HealthyKept, CountsKept, Zenon
    <2>4. job' = job /\ node' = [node EXCEPT ![n] = e] /\ RestOK'
      BY Zenon, <1>1, <1>2 DEF RestOK, NodeDownDone
    <2> HIDE DEF e
    <2> QED
      BY <2>1, <2>3, <2>4, NodePreserves, Zenon
  <1>3. CASE UNCHANGED vars
    BY Zenon, <1>1, <1>3, RestPreserves DEF vars, RestOK
  <1>4. ASSUME NEW j \in Jobs, JobStep(j) \/ ScanStep(j) PROVE FullInv'
    BY Zenon, <1>4, JobStepPreserves, ScanStepPreserves
  <1>5. ASSUME NEW n \in Nodes, NodeStep(n) PROVE FullInv'
    BY Zenon, <1>5, NodeStepPreserves
  <1>6. ASSUME NEW m \in msgs, Receive(m) \/ LoseMessage(m) PROVE FullInv'
    BY Zenon, <1>6, MessagePreserves
  <1> QED
    BY Zenon, <1>2, <1>3, <1>4, <1>5, <1>6 DEF Next

-----------------------------------------------------------------------------
(* DOWN nodes.  When set_node_down_ptr() has returned, no job runs on the  *)
(* node, is suspended there or waits for its epilog, and none comes to use *)
(* it while it is DOWN.  DownInv strengthens this to the states in which   *)
(* the scan of the job list is under way.                                  *)

\* A job uses a DOWN node only between the failure and the scan that reaches it.
DownInv ==
  /\ \A j \in Jobs : Freed(j, job[j])
  /\ down.node # NULL => IsDown(node[down.node])
  /\ \A n \in Nodes, j \in Jobs : IsDown(node[n]) /\ Uses(job[j], n) => n = down.node /\ j \in down.todo

\* The job uses no DOWN node.
Clear(r, nodes) == \A n \in Nodes : IsDown(nodes[n]) => ~Uses(r, n)

\* A step of job j
LEMMA StepClears ==
  ASSUME FullInv, DownInv, NEW j \in Jobs, NEW q, NEW ns,
         job' = [job EXCEPT ![j] = q], node' = ns, AllDown(node, ns),
         Freed(j, q), Clear(q, node),
         \/ down' = down /\ LocksFree
         \/ down.node # NULL /\ down' = [down EXCEPT !.todo = @ \ {j}]
  PROVE  DownInv'
  <1>1. \A i \in Jobs : job'[i] = IF i = j THEN q ELSE job[i]
    BY Zenon DEF FullInv, IInv, TypeOK
  <1>2. /\ down'.node = down.node
        /\ \A i \in Jobs : i # j /\ i \in down.todo => i \in down'.todo
    BY Zenon DEF FullInv, IInv, TypeOK
  <1>3. down.node # NULL => down.node \in Nodes
    BY Zenon DEF FullInv, IInv, TypeOK
  <1>4. \A n \in Nodes : IsDown(node'[n]) <=> IsDown(node[n])
    BY Zenon DEF AllDown, SameDown
  <1>5. \A i \in Jobs : Freed(i, job'[i])
    BY Zenon, <1>1 DEF DownInv
  <1>6. ASSUME NEW n \in Nodes, NEW i \in Jobs, IsDown(node'[n]), Uses(job'[i], n)
        PROVE  n = down'.node /\ i \in down'.todo
    <2>1. i # j
      BY Zenon, <1>1, <1>4, <1>6 DEF Clear
    <2>2. n = down.node /\ i \in down.todo
      BY Zenon, <1>1, <1>4, <1>6, <2>1 DEF DownInv
    <2> QED
      BY Zenon, <1>2, <2>1, <2>2
  <1>7. down'.node # NULL => IsDown(node'[down'.node])
    BY Zenon, <1>2, <1>3, <1>4 DEF DownInv
  <1>8. \A i \in Jobs : Freed(i, job[i])'
    BY Zenon, <1>5 DEF Freed, Completing
  <1>9. \A n \in Nodes, i \in Jobs : (IsDown(node[n]) /\ Uses(job[i], n) => n = down.node /\ i \in down.todo)'
    BY Zenon, <1>6 DEF IsDown, Uses, OnNode, Completing
  <1>10. (down.node # NULL => IsDown(node[down.node]))'
    BY Zenon, <1>7 DEF IsDown
  <1> QED
    BY Zenon, <1>8, <1>9, <1>10 DEF DownInv

\* An event of one node that does not take it DOWN
LEMMA NodeClears ==
  ASSUME FullInv, DownInv, LocksFree, NEW n \in Nodes, NEW d, IsDown(d) => IsDown(node[n]),
         job' = job, down' = down, node' = [node EXCEPT ![n] = d]
  PROVE  DownInv'
  <1>1. \A i \in Nodes : IsDown(node'[i]) => IsDown(node[i])
    BY Zenon DEF FullInv, IInv, TypeOK
  <1>2. \A i \in Jobs : Freed(i, job[i])'
    BY Zenon DEF DownInv, Freed, Completing
  <1>3. \A k \in Nodes, i \in Jobs : (IsDown(node[k]) /\ Uses(job[i], k) => k = down.node /\ i \in down.todo)'
    BY Zenon, <1>1 DEF DownInv, IsDown, Uses, OnNode, Completing
  <1>4. (down.node # NULL => IsDown(node[down.node]))'
    BY Zenon DEF LocksFree
  <1> QED
    BY Zenon, <1>2, <1>3, <1>4 DEF DownInv

\* What the invariant says of one job while no scan is under way
LEMMA JobClear ==
  ASSUME FullInv, DownInv, NEW j \in Jobs
  PROVE  /\ Freed(j, job[j])
         /\ LocksFree => Clear(job[j], node)
         /\ LocksFree /\ job[j].state \in Active => job[j].node_bitmap \cap DownNodes(node) = {}
         /\ job[j].state \in Active => job[j].node_bitmap \in SUBSET Nodes
  <1>1. job[j] \in JobRecord /\ JobOK(job[j])
    BY Zenon, JobFacts
  <1>2. LocksFree => Clear(job[j], node)
    <2>1. NULL \notin Nodes
      BY Zenon, NullAssumption
    <2> QED
      BY Zenon, <2>1 DEF DownInv, Clear, LocksFree
  <1>3. job[j].state \in Active => job[j].node_bitmap \in SUBSET Nodes /\ job[j].node_bitmap # NULL
    BY Zenon, <1>1, NullBitmap DEF JobOK, JobRecord
  <1>4. LocksFree /\ job[j].state \in Active => job[j].node_bitmap \cap DownNodes(node) = {}
    BY Zenon, <1>2, <1>3 DEF Clear, Uses, OnNode, DownNodes
  <1> QED
    BY Zenon, <1>2, <1>3, <1>4 DEF DownInv

\* A job that has ended and waits for nodes in service only is clear.
LEMMA EndedClear ==
  ASSUME NEW q, q.state \notin Active, NEW nodes, CgSet(q) \cap DownNodes(nodes) = {},
         Completing(q) => q.node_bitmap_cg # NULL
  PROVE  Clear(q, nodes)
  BY Zenon DEF Clear, Uses, CgSet, DownNodes

-----------------------------------------------------------------------------
(* The handlers, one job at a time.                                        *)

\* The job uses the nodes it used.
SameUse(r, q) == /\ q.state = r.state /\ (Completing(q) <=> Completing(r))
                 /\ q.node_bitmap = r.node_bitmap /\ q.node_bitmap_cg = r.node_bitmap_cg

\* The job has ended, or had, and waits for nodes it used.
Ended(r, q) == /\ q.state \notin Active
               /\ \A n \in CgSet(q) : n \in CgSet(r) \/ (r.state \in Active /\ n \in r.node_bitmap)

\* The job comes to use no node, and is not suspended.
Shrinks(r, q) == /\ q.state = "SUSPENDED" => r.state = "SUSPENDED"
                 /\ \A n \in Nodes : RunsOn(q, n) => RunsOn(r, n)
                 /\ \A n \in CgSet(q) : n \in CgSet(r) \/ (r.state \in Active /\ n \in r.node_bitmap)

\* What a step of job j does to the nodes the job uses.
UseStep(j) == \/ Shrinks(job[j], job'[j])
              \/ \E ns \in SUBSET Nodes : Start(j, ns)
              \/ Suspend(j) \/ Resume(j)

\* A job that uses its nodes or has ended comes to use no other.
LEMMA UseShrinks ==
  ASSUME NEW r, NEW q, SameUse(r, q) \/ Ended(r, q)
  PROVE  Shrinks(r, q)
  <1>1. CASE SameUse(r, q)
    BY Zenon, <1>1 DEF SameUse, Shrinks, RunsOn, OnNode, CgSet
  <1>2. CASE Ended(r, q)
    BY Zenon, <1>2 DEF Ended, Shrinks, RunsOn, Active
  <1> QED
    BY Zenon, <1>1, <1>2

\* A handler of job j
LEMMA HandleClears ==
  ASSUME FullInv, FullInv', DownInv, LocksFree, NEW j \in Jobs, NEW q, NEW ns, NEW sent,
         Handle(j, q, ns, sent), AllDown(node, ns),
         \/ SameUse(job[j], q)
         \/ Freed(j, q) /\ (Ended(job[j], q) \/ Clear(q, node))
  PROVE  DownInv'
  <1> DEFINE r == job[j]
  <1>1. r \in JobRecord /\ JobOK(r) /\ Freed(j, r) /\ Clear(r, node)
    BY Zenon, JobFacts, JobClear
  <1>2. job' = [job EXCEPT ![j] = q] /\ node' = ns /\ down' = down
    BY Zenon DEF Handle
  <1>3. Completing(q) => q.node_bitmap_cg # NULL
    <2>1. job'[j] = q
      BY Zenon, <1>2 DEF FullInv, IInv, TypeOK
    <2>2. JobOK(q)
      BY Zenon, <2>1 DEF FullInv, IInv, JobOK, Completing
    <2> QED
      BY Zenon, <2>2 DEF JobOK
  <1>4. CASE SameUse(r, q)
    <2>1. Freed(j, q) /\ Clear(q, node)
      BY Zenon, <1>1, <1>4 DEF SameUse, Freed, Clear, Uses, OnNode
    <2> QED
      BY <1>2, <2>1, StepClears, Zenon
  <1>5. CASE Freed(j, q) /\ Ended(r, q)
    <2>1. ASSUME NEW n \in CgSet(q) PROVE n \notin DownNodes(node)
      <3>1. CASE n \in CgSet(r)
        <4>1. Completing(r) /\ n \in r.node_bitmap_cg
          BY Zenon, <1>1, <3>1 DEF JobOK, CgSet
        <4> QED
          BY Zenon, <1>1, <4>1 DEF Clear, Uses, DownNodes
      <3>2. CASE r.state \in Active /\ n \in r.node_bitmap
        BY Zenon, <3>2, JobClear
      <3> QED
        BY Zenon, <1>5, <3>1, <3>2 DEF Ended
    <2>2. Clear(q, node)
      BY Zenon, <1>3, <1>5, <2>1, EndedClear DEF Ended
    <2> QED
      BY <1>2, <1>5, <2>2, StepClears, Zenon
  <1>6. CASE Freed(j, q) /\ Clear(q, node)
    BY <1>2, <1>6, StepClears, Zenon
  <1> QED
    BY Zenon, <1>4, <1>5, <1>6

\* The endings of an active job, outside of the scan
LEMMA EndJobClears ==
  ASSUME Counting, FullInv, DownInv, LocksFree, Requeue \subseteq Batch, NEW j \in Jobs,
         NEW h \in JobRecord, SameJob(job[j], h), job[j].state \in Active,
         NEW state \in JobBase \ Active, NEW code \in ExitCodes, state = "PENDING" => j \in Batch
  PROVE  LET q == EndJob(j, h, state, code, node) IN Freed(j, q) /\ Ended(job[j], q)
  <1>1. job[j] \in JobRecord /\ JobOK(job[j]) /\ job[j].node_bitmap \cap DownNodes(node) = {}
    BY Zenon, JobFacts, JobClear
  <1>2. JobOK(h) /\ h.state \in Active /\ h.node_bitmap = job[j].node_bitmap
    BY Zenon, <1>1, SameJobFacts DEF SameJob, SameNodes
  <1>3. Freed(j, EndJob(j, h, state, code, node))
    BY Zenon, <1>1, <1>2, EndJobFrees
  <1>4. LET q == EndJob(j, h, state, code, node)
        IN q.state \notin Active /\ CgSet(q) = EndCg(h, node)
    BY SMTT(30), <1>2, EndJobEnds
  <1> QED
    BY Zenon, <1>2, <1>3, <1>4 DEF Ended, EndCg

\* job_signal(SIGKILL) and _job_complete()
LEMMA CancelCompleteClears ==
  ASSUME Counting, FullInv, DownInv, LocksFree, Requeue \subseteq Batch, NEW j \in Jobs, NEW code \in ExitCodes
  PROVE  LET c == CancelJob(j, job[j], node)
             d == CompleteJob(j, job[j], code, node)
         IN /\ SameUse(job[j], c) \/ (Freed(j, c) /\ Ended(job[j], c))
            /\ SameUse(job[j], d) \/ (Freed(j, d) /\ Ended(job[j], d))
  <1> DEFINE r == job[j]
             c == CancelJob(j, r, node)
             d == CompleteJob(j, r, code, node)
  <1>1. r \in JobRecord /\ JobOK(r) /\ Rec(r) /\ SameJob(r, r) /\ SameUse(r, r)
    BY Zenon, JobFacts, JobRecordRec DEF SameJob, SameNodes, SameUse
  <1>2. /\ "CANCELLED" \in JobBase \ Active /\ "COMPLETE" \in JobBase \ Active
        /\ "FAILED" \in JobBase \ Active /\ r.exit_code \in ExitCodes
        /\ FinalState(code) \in JobBase \ Active /\ FinalState(code) # "PENDING"
    BY Zenon, <1>1 DEF JobBase, Finished, Active, JobRecord, FinalState
  <1>3. r.state \in Active =>
          /\ Freed(j, EndJob(j, r, "CANCELLED", r.exit_code, node))
          /\ Ended(r, EndJob(j, r, "CANCELLED", r.exit_code, node))
          /\ Freed(j, EndJob(j, r, FinalState(code), code, node))
          /\ Ended(r, EndJob(j, r, FinalState(code), code, node))
    BY Zenon, <1>1, <1>2, EndJobClears
  <1>4. ASSUME NEW flags, "COMPLETING" \in flags <=> Completing(r), r.state = "PENDING"
        PROVE  LET x == JobStateSet(r, "CANCELLED", flags) IN Freed(j, x) /\ Ended(r, x)
    <2> DEFINE x == JobStateSet(r, "CANCELLED", flags)
    <2>1. x.state = "CANCELLED" /\ x.node_bitmap_cg = r.node_bitmap_cg
      BY Zenon, <1>1 DEF JobStateSet, Rec
    <2> HIDE DEF x
    <2> QED
      BY Zenon, <2>1 DEF Freed, Ended, CgSet, Active, x
  <1>5. r.state \in Finished \/ r.state = "PENDING" \/ r.state \in Active
    BY Zenon, <1>1, EndStates DEF JobRecord
  <1>6. /\ r.state \in Finished => r.state # "PENDING" /\ r.state \notin Active
        /\ r.state = "PENDING" => r.state \notin Active
    BY Zenon DEF Finished, Active
  <1>7. SameUse(r, c) \/ (Freed(j, c) /\ Ended(r, c))
    <2>1. CASE r.state \in Finished
      <3>1. c = r
        BY <1>6, <2>1, Zenon DEF CancelJob, IsFinished
      <3> QED
        BY Zenon, <1>1, <3>1
    <2>2. CASE r.state = "PENDING"
      <3>1. c = JobStateSet(r, "CANCELLED", r.flags \cap {"COMPLETING"})
        BY <1>6, <2>2, Zenon DEF CancelJob, IsFinished
      <3>2. "COMPLETING" \in r.flags \cap {"COMPLETING"} <=> Completing(r)
        BY Zenon DEF Completing
      <3> QED
        BY Zenon, <1>4, <2>2, <3>1, <3>2
    <2>3. CASE r.state \in Active
      <3>1. c = EndJob(j, r, "CANCELLED", r.exit_code, node)
        BY <1>6, <2>3, Zenon DEF CancelJob, IsFinished
      <3> QED
        BY Zenon, <1>3, <2>3, <3>1
    <2> QED
      BY Zenon, <1>5, <2>1, <2>2, <2>3
  <1>8. SameUse(r, d) \/ (Freed(j, d) /\ Ended(r, d))
    <2>1. CASE r.state \in Finished
      <3>1. d = [r EXCEPT !.exit_code = IF @ = "zero" THEN code ELSE @]
        BY <1>6, <2>1, Zenon DEF CompleteJob, IsFinished
      <3>2. SameUse(r, d)
        BY Zenon, <1>1, <3>1 DEF SameUse, Rec, Completing
      <3> QED
        BY Zenon, <3>2
    <2>2. CASE r.state \notin Finished /\ Completing(r)
      <3>1. d = r
        BY <2>2, Zenon DEF CompleteJob, IsFinished
      <3> QED
        BY Zenon, <1>1, <3>1
    <2>3. CASE r.state = "PENDING" /\ ~Completing(r)
      <3>1. d \in {r, JobStateSet(r, "CANCELLED", {})}
        BY <1>6, <2>3, Zenon DEF CompleteJob, IsFinished
      <3> QED
        BY Zenon, <1>1, <1>4, <2>3, <3>1
    <2>4. CASE r.state \in Active /\ ~Completing(r)
      <3>1. d = EndJob(j, r, FinalState(code), code, node)
        BY <1>6, <2>4, Zenon DEF CompleteJob, IsFinished
      <3> QED
        BY Zenon, <1>3, <2>4, <3>1
    <2> QED
      BY Zenon, <1>5, <2>1, <2>2, <2>3, <2>4
  <1> QED
    BY Zenon, <1>7, <1>8

\* The job may be given a record that uses the same nodes.
LEMMA UseKept ==
  ASSUME NEW j, NEW r, NEW q, NEW t, SameUse(q, t)
  PROVE  /\ SameUse(r, q) => SameUse(r, t)
         /\ Freed(j, q) => Freed(j, t)
         /\ Ended(r, q) => Ended(r, t)
  BY Zenon DEF SameUse, Freed, Ended, CgSet

\* The actions on one job
LEMMA JobStepClears ==
  ASSUME Counting, FullInv, FullInv', DownInv, Requeue \subseteq Batch, NEW j \in Jobs, JobStep(j)
  PROVE  DownInv' /\ UseStep(j)
  <1> DEFINE r == job[j]
             Safe(q) == SameUse(r, q) \/ (Freed(j, q) /\ Ended(r, q))
  <1>1. /\ r \in JobRecord /\ JobOK(r) /\ Rec(r) /\ Freed(j, r) /\ SameUse(r, r)
        /\ node \in [Nodes -> NodeRecord] /\ AllDown(node, node)
    BY Zenon, JobFacts, JobRecordRec, JobClear DEF SameUse, AllDown, SameDown
  <1>2. ASSUME NEW q, NEW ns, NEW sent, Handle(j, q, ns, sent), LocksFree, AllDown(node, ns), Safe(q)
        PROVE  DownInv' /\ UseStep(j)
    <2>1. job'[j] = q
      BY Zenon, <1>2 DEF Handle, FullInv, IInv, TypeOK
    <2> QED
      BY Zenon, <1>2, <2>1, HandleClears, UseShrinks DEF UseStep
  <1>3. /\ "TIMEOUT" \in JobBase \ Active /\ "PENDING" \in JobBase \ Active
        /\ "zero" \in ExitCodes /\ r.exit_code \in ExitCodes
    BY Zenon, <1>1 DEF JobBase, Finished, Active, JobRecord, ExitCodes
  <1>4. \A state : AllDown(node, EndNodes(j, r, state, node)) /\ AllDown(node, ActiveNodes(j, r, state, node))
    BY <1>1, Booleans, TableDown, ZenonT(30)
  <1>5. ASSUME LocksFree, j \in Batch, NEW kind PROVE Safe(RequeueJob(j, r, kind, node))
    BY Zenon, <1>1, <1>5, JobClear, RequeueJobFrees DEF Ended
  <1>6. ASSUME LocksFree, NEW code \in ExitCodes
        PROVE  Safe(CancelJob(j, r, node)) /\ Safe(CompleteJob(j, r, code, node))
    BY Zenon, <1>6, CancelCompleteClears
  <1> HIDE DEF Safe
  <1>7. ASSUME NEW ns \in SUBSET Nodes, Start(j, ns) PROVE DownInv' /\ UseStep(j)
    <2> DEFINE q == StartJob(r, ns)
               ms == AllocateNodes(j, ns, node)
    <2>1. /\ LocksFree /\ r.state = "PENDING" /\ ~Completing(r) /\ \A n \in ns : node[n].avail
          /\ Handle(j, q, ms, {})
      BY Zenon, <1>7 DEF Start, Runnable, Usable
    <2>2. \A n \in ns : ~IsDown(node[n])
      <3>1. \A n \in Nodes : Healthy(node[n])
        BY Zenon DEF FullInv
      <3> QED
        BY Zenon, <2>1, <3>1 DEF Healthy, IsDown
    <2>3. AllDown(node, ms)
      <3>1. \A n \in Nodes : ~IsDown(MakeNodeAlloc(node[n], j \in Exclusive, j \in OwnerExclusive, User[j]))
        BY <1>1, DownKept, Zenon
      <3> QED
        BY Zenon, <2>2, <3>1 DEF AllDown, SameDown, AllocateNodes
    <2>4. q.state = "RUNNING" /\ ~Completing(q) /\ q.node_bitmap = ns /\ q.node_bitmap_cg = r.node_bitmap_cg
      BY Zenon, <1>1 DEF StartJob, JobStateSet, Rec, Completing
    <2> HIDE DEF q, ms
    <2>5. Freed(j, q)
      BY Zenon, <1>1, <2>1, <2>4 DEF Freed
    <2>6. Clear(q, node)
      BY Zenon, <2>2, <2>4 DEF Clear, Uses, OnNode
    <2> QED
      BY Zenon, <1>7, <2>1, <2>3, <2>5, <2>6, HandleClears DEF UseStep
  <1>8. ASSUME NEW ok \in BOOLEAN, PrologSlurmctldDone(j, ok) PROVE DownInv' /\ UseStep(j)
    <2> DEFINE requeues == ~ok /\ RequeueAllowed(j, r)
               kills    == ~ok /\ ~RequeueAllowed(j, r) /\ ~(j \in Requeue \cap Batch)
               q == CASE requeues -> RequeueJob(j, r, "plain", node)
                      [] kills    -> CancelJob(j, r, node)
                      [] OTHER    -> r
               t == PrologRunningDecr(q)
               ends == (requeues \/ kills) /\ r.state \in Active
               ns == IF ends THEN EndNodes(j, r, "CANCELLED", node) ELSE node
    <2>1. Handle(j, t, ns, {}) /\ LocksFree
      BY <1>8, Zenon DEF PrologSlurmctldDone
    <2>2. /\ requeues => j \in Batch
          /\ \/ requeues /\ q = RequeueJob(j, r, "plain", node)
             \/ q = CancelJob(j, r, node)
             \/ q = r
      BY Zenon DEF RequeueAllowed
    <2>3. AllDown(node, ns)
      BY Zenon, <1>1, <1>4
    <2> HIDE DEF q, ns
    <2>4. Safe(q)
      <3>1. j \in Batch => Safe(RequeueJob(j, r, "plain", node))
        BY Zenon, <1>5, <2>1
      <3>2. Safe(CancelJob(j, r, node)) /\ Safe(r)
        BY Zenon, <1>1, <1>3, <1>6, <2>1 DEF Safe
      <3> QED
        BY Zenon, <2>2, <3>1, <3>2
    <2>5. Rec(q)
      <3>1. /\ Keeps(r, RequeueJob(j, r, "plain", node)) /\ Keeps(r, CancelJob(j, r, node))
            /\ Rec(r)
        BY Zenon, <1>1, RequeueJobKeeps, HandlerKeeps DEF Stays
      <3> QED
        BY Zenon, <2>2, <3>1 DEF Keeps
    <2>6. SameUse(q, t)
      BY Zenon, <2>5 DEF SameUse, PrologRunningDecr, Completing, Rec
    <2> HIDE DEF t
    <2>7. Safe(t)
      BY Zenon, <2>4, <2>6, UseKept DEF Safe
    <2> QED
      BY Zenon, <1>2, <2>1, <2>3, <2>7
  <1>9. CASE Cancel(j)
    BY Zenon, <1>2, <1>3, <1>4, <1>6, <1>9 DEF Cancel, Requested
  <1>10. CASE TimeLimit(j)
    <2>1. LocksFree /\ r.state \in Active
      BY Zenon, <1>10 DEF TimeLimit, Requested, Active
    <2>2. Safe(EndJob(j, r, "TIMEOUT", r.exit_code, node))
      BY Zenon, <1>1, <1>3, <2>1, EndJobClears DEF Safe, SameJob, SameNodes
    <2> QED
      BY Zenon, <1>2, <1>4, <1>10, <2>1, <2>2 DEF TimeLimit
  <1>11. CASE LaunchFailure(j)
    <2> DEFINE h == HandleRequeueLimit([r EXCEPT !.batch_flag = @ + 1])
    <2>1. LocksFree /\ r.state \in Active /\ j \in Batch
      BY Zenon, <1>11 DEF LaunchFailure, Requested
    <2>2. h \in JobRecord /\ SameJob(r, h)
      <3> DEFINE b == [r EXCEPT !.batch_flag = @ + 1]
      <3>1. b \in JobRecord /\ SameJob(r, b)
        BY SMTT(30), <1>1 DEF JobRecord, SameJob, SameNodes
      <3> HIDE DEF b
      <3>2. h \in JobRecord /\ SameJob(b, h)
        BY <3>1, Zenon DEF JobRecord, SameJob, SameNodes, HandleRequeueLimit, b
      <3> QED
        BY Zenon, <3>1, <3>2 DEF SameJob, SameNodes
    <2> HIDE DEF h
    <2>3. Safe(EndJob(j, h, "PENDING", "zero", node))
      BY Zenon, <1>3, <2>1, <2>2, EndJobClears DEF Safe
    <2>4. Safe(RelaunchJob(j, r, node))
      BY Zenon, <2>3 DEF RelaunchJob, h
    <2> QED
      BY Zenon, <1>2, <1>4, <1>11, <2>1, <2>4 DEF LaunchFailure
  <1>12. ASSUME NEW code \in ExitCodes, JobComplete(j, code) PROVE DownInv' /\ UseStep(j)
    BY Zenon, <1>2, <1>4, <1>6, <1>12 DEF JobComplete
  <1>13. ASSUME NEW kind \in {"plain", "hold", "launch_failed"}, RequeueOp(j, kind) PROVE DownInv' /\ UseStep(j)
    BY Zenon, <1>2, <1>4, <1>5, <1>13 DEF RequeueOp, Requested, RequeueAllowed
  <1>14. CASE Release(j)
    <2> DEFINE q == [r EXCEPT !.held = FALSE]
    <2>1. LocksFree /\ Handle(j, q, node, {})
      BY Zenon, <1>14 DEF Release, Requested
    <2>2. SameUse(r, q)
      BY Zenon, <1>1 DEF Rec, SameUse, Completing
    <2> HIDE DEF q
    <2> QED
      BY Zenon, <1>1, <1>2, <2>1, <2>2 DEF Safe
  <1>15. ASSUME NEW q, NEW ns, Handle(j, q, ns, {}), LocksFree, r.state \in Active,
                q.state \in Active, ~Completing(q), q.node_bitmap = r.node_bitmap,
                q.node_bitmap_cg = r.node_bitmap_cg, AllDown(node, ns)
         PROVE  DownInv'
    <2>2. ~Completing(r)
      BY Zenon, <1>1, <1>15 DEF JobOK, Active
    <2>3. Freed(j, q)
      BY Zenon, <1>1, <1>15, <2>2 DEF Freed
    <2>4. Clear(q, node)
      BY Zenon, <1>15, JobClear DEF Clear, Uses, OnNode
    <2> QED
      BY Zenon, <1>15, <2>3, <2>4, HandleClears
  <1>16. CASE Suspend(j)
    <2> DEFINE q == SuspendJob(r)
               f(n) == SuspendJobNode(node[n], j \in Exclusive)
               ns == [n \in Nodes |-> IF OnNode(r, n) THEN f(n) ELSE node[n]]
    <2>1. r.state \in Active /\ LocksFree /\ Handle(j, q, ns, {})
      BY Zenon, <1>16 DEF Suspend, Requested, Active
    <2>2. q.state \in Active /\ ~Completing(q) /\ q.node_bitmap = r.node_bitmap
          /\ q.node_bitmap_cg = r.node_bitmap_cg
      BY Zenon, <1>1 DEF SuspendJob, JobStateSet, Rec, Completing, Active
    <2>3. \A n \in Nodes : SameDown(node[n], f(n))
      BY <1>1, DownKept, Zenon
    <2> HIDE DEF q, f
    <2>4. AllDown(node, ns)
      BY Zenon, <2>3 DEF AllDown, SameDown
    <2> HIDE DEF ns
    <2> QED
      BY Zenon, <1>15, <1>16, <2>1, <2>2, <2>4 DEF UseStep
  <1>17. CASE Resume(j)
    <2> DEFINE q == [JobStateSet(r, "RUNNING", {}) EXCEPT !.held = FALSE]
               f(n) == ResumeJobNode(node[n], j \in Exclusive)
               ns == [n \in Nodes |-> IF OnNode(r, n) THEN f(n) ELSE node[n]]
    <2>1. r.state \in Active /\ LocksFree /\ Handle(j, q, ns, {})
      BY Zenon, <1>17 DEF Resume, Requested, Active
    <2>2. q.state \in Active /\ ~Completing(q) /\ q.node_bitmap = r.node_bitmap
          /\ q.node_bitmap_cg = r.node_bitmap_cg
      BY Zenon, <1>1 DEF JobStateSet, Rec, Completing, Active
    <2>3. \A n \in Nodes : OnNode(r, n) => SameDown(node[n], f(n))
      <3>1. \A n \in Nodes : ~IsDown(f(n))
        BY <1>1, DownKept, Zenon
      <3> QED
        BY Zenon, <1>17, <3>1 DEF Resume, SameDown
    <2> HIDE DEF q, f
    <2>4. AllDown(node, ns)
      BY Zenon, <2>3 DEF AllDown, SameDown
    <2> HIDE DEF ns
    <2> QED
      BY Zenon, <1>15, <1>17, <2>1, <2>2, <2>4 DEF UseStep
  <1>18. CASE EpilogSlurmctldDone(j)
    <2> DEFINE e == [r EXCEPT !.epilog_running = FALSE]
    <2>1. /\ LocksFree
          /\ \/ Completing(e) /\ Handle(j, CleanupRequeue(j, e), CleanupRequeueNodes(j, e, node), {})
             \/ Handle(j, e, node, {})
      BY Zenon, <1>18 DEF EpilogSlurmctldDone
    <2>2. Rec(e) /\ SameUse(r, e)
      BY Zenon, <1>1 DEF Rec, SameUse, Completing
    <2> HIDE DEF e
    <2>3. AllDown(node, CleanupRequeueNodes(j, e, node))
      BY <1>1, Booleans, TableDown, Zenon
    <2>4. ASSUME Completing(e) PROVE Safe(CleanupRequeue(j, e))
      <3>1. e.state \notin Active
        BY Zenon, <1>1, <2>2, <2>4 DEF SameUse, JobOK, Active
      <3>2. Freed(j, e)
        BY Zenon, <1>1, <2>2, UseKept
      <3>3. LET c == CleanupRequeue(j, e)
            IN Freed(j, c) /\ c.state \notin Active /\ CgSet(c) \subseteq CgSet(e)
        BY Zenon, <2>2, <2>4, <3>1, <3>2, CleanupRequeueFrees
      <3>4. CgSet(e) = CgSet(r)
        BY Zenon, <2>2 DEF SameUse, CgSet
      <3> QED
        BY Zenon, <3>3, <3>4 DEF Safe, Ended
    <2> QED
      BY Zenon, <1>1, <1>2, <2>1, <2>2, <2>3, <2>4 DEF Safe
  <1>19. CASE ReKillJob(j)
    <2> DEFINE lost == r.node_bitmap_cg \cap DownNodes(node)
               q == [r EXCEPT !.node_bitmap_cg = @ \ lost, !.node_cnt = @ - Cardinality(lost)]
               ns == [n \in Nodes |->
                        IF n \in lost THEN [node[n] EXCEPT !.comp_job_cnt = Decr(@)] ELSE node[n]]
    <2>1. /\ LocksFree /\ Completing(r) /\ r.node_bitmap_cg # NULL
          /\ \E sent : \/ Handle(j, CleanupRequeue(j, q), CleanupRequeueNodes(j, q, ns), sent)
                       \/ Handle(j, q, ns, sent)
      BY Zenon, <1>19 DEF ReKillJob
    <2>2. Rec(q) /\ q.state = r.state /\ Completing(q) /\ CgSet(q) \subseteq CgSet(r)
      <3>1. Rec(q) /\ q.state = r.state /\ q.flags = r.flags /\ q.node_bitmap_cg = r.node_bitmap_cg \ lost
        BY Zenon, <1>1 DEF Rec
      <3> HIDE DEF q
      <3> QED
        BY Zenon, <2>1, <3>1 DEF Completing, CgSet
    <2>3. ns \in [Nodes -> NodeRecord] /\ AllDown(node, ns)
      <3>1. \A n \in Nodes : /\ [node[n] EXCEPT !.comp_job_cnt = Decr(@)] \in NodeRecord
                             /\ SameDown(node[n], [node[n] EXCEPT !.comp_job_cnt = Decr(@)])
        BY Zenon, <1>1, LeavePhaseType, DownKept
      <3> HIDE DEF lost
      <3> QED
        BY Zenon, <1>1, <3>1 DEF AllDown, SameDown
    <2> HIDE DEF q, ns
    <2>4. AllDown(node, CleanupRequeueNodes(j, q, ns))
      <3>1. AllDown(ns, CleanupRequeueNodes(j, q, ns))
        BY <2>3, Booleans, TableDown, ZenonT(30)
      <3> QED
        BY Zenon, <2>3, <3>1 DEF AllDown, SameDown
    <2>5. q.state \notin Active /\ Freed(j, q)
      BY Zenon, <1>1, <2>1, <2>2 DEF JobOK, Active, Freed
    <2>6. Safe(q) /\ Safe(CleanupRequeue(j, q))
      <3>1. LET c == CleanupRequeue(j, q)
            IN Freed(j, c) /\ c.state \notin Active /\ CgSet(c) \subseteq CgSet(q)
        BY Zenon, <2>2, <2>5, CleanupRequeueFrees
      <3> QED
        BY Zenon, <2>2, <2>5, <3>1 DEF Safe, Ended
    <2> QED
      BY Zenon, <1>2, <2>1, <2>3, <2>4, <2>6
  <1> QED
    BY Zenon, <1>7, <1>8, <1>9, <1>10, <1>11, <1>12, <1>13, <1>14, <1>16, <1>17, <1>18, <1>19 DEF JobStep

\* The scan after a node failure
LEMMA ScanStepClears ==
  ASSUME Counting, FullInv, FullInv', DownInv, Requeue \subseteq Batch, NEW j \in Jobs, ScanStep(j)
  PROVE  DownInv' /\ Shrinks(job[j], job'[j])
  <1> DEFINE r == job[j]
             n == down.node
  <1>1. /\ r \in JobRecord /\ JobOK(r) /\ ExpeditingOK(j, r) /\ Rec(r) /\ Freed(j, r)
        /\ node \in [Nodes -> NodeRecord] /\ AllDown(node, node)
        /\ \A d \in Nodes : IsDown(node[d]) /\ Uses(r, d) => d = n
    BY Zenon, JobFacts, JobRecordRec, JobClear DEF SameUse, AllDown, SameDown, DownInv
  <1>2. ASSUME NEW q, NEW ns, NEW sent, Scan(j, q, ns, sent), AllDown(node, ns), Freed(j, q),
               \/ Clear(q, node)
               \/ q.state \notin Active /\ CgSet(q) \cap DownNodes(node) = {},
               Shrinks(r, q)
        PROVE  DownInv' /\ Shrinks(r, job'[j])
    <2>1. job' = [job EXCEPT ![j] = q] /\ node' = ns /\ n # NULL /\ down' = [down EXCEPT !.todo = @ \ {j}]
      BY Zenon, <1>2 DEF Scan
    <2>4. job'[j] = q
      BY Zenon, <2>1 DEF FullInv, IInv, TypeOK
    <2>2. Completing(q) => q.node_bitmap_cg # NULL
      <3>1. JobOK(q)
        BY Zenon, <2>4 DEF FullInv, IInv, JobOK, Completing
      <3> QED
        BY Zenon, <3>1 DEF JobOK
    <2>3. Clear(q, node)
      BY Zenon, <1>2, <2>2, EndedClear
    <2> QED
      BY <1>2, <2>1, <2>3, <2>4, StepClears, Zenon
  <1>3. /\ "NODE_FAIL" \in JobBase \ Active /\ "NODE_FAIL" # "PENDING"
        /\ "signal" \in ExitCodes /\ "signal" # "exit" /\ "PENDING" \notin Active
    BY Zenon DEF JobBase, Finished, Active, ExitCodes
  <1>4. EndCg(r, node) \cap DownNodes(node) = {}
    BY Zenon DEF EndCg
  <1>10. ASSUME NEW q, q.state \notin Active, CgSet(q) \subseteq CgSet(r) \/ (r.state \in Active /\ CgSet(q) \subseteq EndCg(r, node))
         PROVE  Shrinks(r, q)
    <2>1. Ended(r, q)
      BY Zenon, <1>10 DEF Ended, EndCg
    <2> QED
      BY Zenon, <2>1, UseShrinks
  <1>5. CASE ScanSkips(j)
    <2>1. Clear(r, node)
      <3>1. \/ ~OnNode(r, n)
            \/ Completing(r) /\ n \notin r.node_bitmap_cg
            \/ ~Completing(r) /\ r.state \notin Active
        BY Zenon, <1>5 DEF ScanSkips, HitBy
      <3>2. ~Uses(r, n)
        BY Zenon, <1>1, <3>1 DEF Uses, JobOK, OnNode
      <3> QED
        BY Zenon, <1>1, <3>2 DEF Clear
    <2> QED
      BY <1>1, <1>2, <1>5, <2>1, UseShrinks, Zenon DEF ScanSkips, SameUse
  <1>6. CASE ScanCompleting(j)
    <2> DEFINE q == [r EXCEPT !.node_bitmap_cg = @ \ {n}, !.node_cnt = Decr(@)]
               ms == CleanupRequeueNodes(j, q, node)
               ns == [ms EXCEPT ![n].comp_job_cnt = Decr(@)]
               c == CleanupRequeue(j, q)
    <2>1. Completing(r) /\ n \in r.node_bitmap_cg /\ Scan(j, c, ns, {})
      BY Zenon, <1>6 DEF ScanCompleting
    <2>2. r.state \notin Active /\ r.node_bitmap_cg # NULL /\ r.node_bitmap_cg \in SUBSET Nodes
      BY Zenon, <1>1, <2>1, NullBitmap DEF JobOK, JobRecord
    <2>3. /\ Rec(q) /\ q.state = r.state /\ q.flags = r.flags
          /\ q.node_bitmap_cg = r.node_bitmap_cg \ {n}
      BY Zenon, <1>1 DEF Rec
    <2>4. ns \in [Nodes -> NodeRecord]
      BY <1>1, <2>1, StepScanCompleting, Zenon DEF StepOK
    <2> HIDE DEF q
    <2>5. AllDown(node, ms)
      BY <1>1, Booleans, TableDown, Zenon
    <2>6. AllDown(node, ns)
      <3>1. DOMAIN ms = Nodes
        BY Zenon, <1>1 DEF CleanupRequeueNodes, ExpediteRelease
      <3> HIDE DEF ms
      <3>2. n \in Nodes
        BY Zenon, <2>1, <2>2
      <3>3. \A d \in Nodes : d # n => ns[d] = ms[d]
        BY Zenon, <3>1
      <3>4. ns[n] = [ms[n] EXCEPT !.comp_job_cnt = Decr(@)]
        BY Zenon, <3>1, <3>2
      <3>5. SameDown(ms[n], [ms[n] EXCEPT !.comp_job_cnt = Decr(@)])
        BY SMTT(30) DEF SameDown, IsDown
      <3> QED
        BY Zenon, <2>5, <3>3, <3>4, <3>5 DEF AllDown, SameDown
    <2> HIDE DEF ns
    <2>7. Freed(j, c) /\ c.state \notin Active /\ CgSet(c) \subseteq CgSet(q)
      <3>1. Completing(q) /\ Freed(j, q) /\ q.state \notin Active
        BY Zenon, <1>1, <2>1, <2>2, <2>3 DEF Completing, Freed
      <3> QED
        BY Zenon, <2>3, <3>1, CleanupRequeueFrees
    <2> HIDE DEF c
    <2>8. CgSet(c) \cap DownNodes(node) = {}
      <3>1. \A d \in CgSet(q) : d \in r.node_bitmap_cg /\ d # n
        BY Zenon, <2>2, <2>3 DEF CgSet
      <3> QED
        BY Zenon, <1>1, <2>1, <2>7, <3>1 DEF Uses, DownNodes
    <2>9. Shrinks(r, c)
      <3>1. CgSet(q) \subseteq CgSet(r)
        BY Zenon, <2>2, <2>3 DEF CgSet
      <3> QED
        BY Zenon, <1>10, <2>7, <3>1
    <2> QED
      BY Zenon, <1>2, <2>1, <2>6, <2>7, <2>8, <2>9
  <1>7. CASE ScanExcises(j)
    <2> DEFINE left == ExcisedBitmap(r, n)
               fresh == r.node_bitmap_cg = NULL \/ n \in r.node_bitmap_cg
               q == [r EXCEPT !.node_bitmap = left, !.node_cnt = Cardinality(left)]
               e == MakeNodeIdle(node[n], fresh, r.state, FALSE, j \in OwnerExclusive)
               ns == [node EXCEPT ![n] = e]
    <2>1. r.state \in Active /\ OnNode(r, n) /\ Scan(j, q, ns, {})
      BY Zenon, <1>7 DEF ScanExcises, ScanActive, HitBy
    <2>2. n \in Nodes
      BY SMTT(30), <1>1, <2>1, NullBitmap DEF OnNode, JobRecord
    <2>3. ~Completing(r) /\ r.node_bitmap_cg = NULL
      BY Zenon, <1>1, <2>1 DEF JobOK, Freed
    <2>4. left = r.node_bitmap \ {n}
      BY Zenon, <2>3 DEF ExcisedBitmap
    <2>5. /\ q.state = r.state /\ ~Completing(q) /\ q.node_bitmap = r.node_bitmap \ {n}
          /\ q.node_bitmap_cg = r.node_bitmap_cg
      BY Zenon, <1>1, <2>3, <2>4 DEF Rec, Completing
    <2>6. SameDown(node[n], e)
      BY <1>1, <2>2, DownIdle, Zenon
    <2> HIDE DEF q, e
    <2>7. AllDown(node, ns)
      BY Zenon, <1>1, <2>2, <2>6 DEF AllDown, SameDown
    <2> HIDE DEF ns
    <2>8. Freed(j, q)
      BY Zenon, <2>3, <2>5 DEF Freed
    <2>9. Clear(q, node)
      BY Zenon, <1>1, <2>1, <2>5 DEF Clear, Uses, OnNode
    <2>10. Shrinks(r, q)
      BY Zenon, <2>1, <2>5 DEF Shrinks, RunsOn, OnNode, CgSet
    <2> QED
      BY Zenon, <1>2, <2>1, <2>7, <2>8, <2>9, <2>10
  <1>8. CASE ScanRequeues(j)
    <2> DEFINE q == BuildCgBitmap([JobStateSet(r, "NODE_FAIL", {}) EXCEPT !.exit_code = "signal"])
               t == SetRequeuedJobPendingCompleting(DeallocateJob(j, q, node))
               x == j \in Expedited
               s == [t EXCEPT !.exit_code = "zero",
                              !.flags = IF x THEN @ \cup {"EXPEDITING"} ELSE @,
                              !.epilog_failed = @ \/ x]
               b == BatchRequeueFini(j, s)
               ns == DeallocateNodes(j, q, node, r.state = "SUSPENDED")
               ms == ExpediteRelease(s, ns)
               sent == TerminateMsgs(j, q)
    <2>1. /\ r.state \in Active /\ j \in Batch
          /\ \/ Scan(j, b, ms, sent)
             \/ s.node_bitmap_cg # {} /\ Scan(j, s, ns, sent)
      BY Zenon, <1>8 DEF ScanRequeues, ScanActive
    <2>2. /\ s.state = "PENDING" /\ CgSet(s) = EndCg(r, node)
          /\ s \in JobRecord /\ JobOK(s) /\ ns \in [Nodes -> NodeRecord]
      <3>1. s.state = "PENDING" /\ CgSet(s) = EndCg(r, node) /\ StepOK(j, r, s, node, ns)
        BY <1>1, <2>1, StepScanRequeues, Zenon
      <3> HIDE DEF s, ns
      <3> QED
        BY Zenon, <3>1 DEF StepOK
    <2>3. AllDown(node, ns)
      <3>1. (r.state = "SUSPENDED") \in BOOLEAN
        BY Zenon
      <3> QED
        BY <1>1, <3>1, TableDown, Zenon
    <2> HIDE DEF s, ns, sent
    <2>4. AllDown(node, ms)
      <3>1. AllDown(ns, ms)
        BY <2>2, Booleans, TableDown, ZenonT(30)
      <3> QED
        BY Zenon, <2>3, <3>1 DEF AllDown, SameDown
    <2> HIDE DEF ms
    <2>5. s.node_bitmap_cg # {} => Freed(j, s)
      BY Zenon, <1>3, <2>1, <2>2 DEF Freed, JobOK
    <2>6. Freed(j, b) /\ b.state \notin Active /\ CgSet(b) \subseteq CgSet(s)
      <3>1. Rec(s) /\ s.state \notin Active /\ (~Completing(s) => ~s.epilog_running)
        BY Zenon, <1>3, <2>2, JobRecordRec DEF JobOK
      <3>2. /\ Loses(s, b) /\ b.state \notin Active
            /\ ~Completing(s) => Freed(j, b)
            /\ Completing(s) => b = s
        BY Zenon, <2>1, <3>1, FiniFrees
      <3> HIDE DEF b
      <3>3. Completing(s) => Freed(j, s)
        BY Zenon, <2>1 DEF Freed
      <3> QED
        BY Zenon, <3>2, <3>3 DEF Loses
    <2> HIDE DEF b
    <2>7. Shrinks(r, s) /\ Shrinks(r, b)
      BY Zenon, <1>3, <1>10, <2>1, <2>2, <2>6
    <2> QED
      BY Zenon, <1>2, <1>3, <1>4, <2>1, <2>2, <2>3, <2>4, <2>5, <2>6, <2>7
  <1>9. CASE ScanKills(j)
    <2> DEFINE q == EndJob(j, r, "NODE_FAIL", "signal", node)
               ns == EndNodes(j, r, "NODE_FAIL", node)
    <2>1. r.state \in Active /\ Scan(j, q, ns, EndMsgs(j, r))
      BY Zenon, <1>9 DEF ScanKills, ScanActive
    <2>2. AllDown(node, ns)
      BY <1>1, Booleans, TableDown, ZenonT(30)
    <2>3. Freed(j, q)
      BY Zenon, <1>1, <1>3, <2>1, EndJobFrees
    <2>4. q.state \notin Active /\ CgSet(q) = EndCg(r, node)
      BY SMTT(30), <1>1, <1>3, <2>1, EndJobEnds
    <2> HIDE DEF q, ns
    <2>5. Shrinks(r, q)
      BY Zenon, <1>10, <2>1, <2>4
    <2> QED
      BY Zenon, <1>2, <1>4, <2>1, <2>2, <2>3, <2>4, <2>5
  <1> QED
    BY Zenon, <1>5, <1>6, <1>7, <1>8, <1>9 DEF ScanStep

-----------------------------------------------------------------------------
(* Nodes, messages, and every step.                                        *)

\* The events of a node
LEMMA NodeStepClears ==
  ASSUME FullInv, DownInv, NEW n \in Nodes, NodeStep(n)
  PROVE  DownInv'
  <1> DEFINE d == node[n]
  <1>1. d \in NodeRecord
    BY Zenon DEF FullInv, IInv, TypeOK
  <1>2. /\ IsDown(NodeNotResp(d)) => IsDown(d)
        /\ IsDown(NodeDidResp(d, ReturnToService)) => IsDown(d)
        /\ IsDown(ValidateNodeSpecs(d, ReturnToService)) => IsDown(d)
        /\ IsDown(DrainNode(d)) => IsDown(d)
        /\ IsDown(ResumeNode(d)) => IsDown(d)
        /\ IsDown(MakeNodeDown(d))
    BY <1>1, DownEvents, Zenon
  <1>3. ASSUME NEW e, NEW input, NodeEvent(input, n, e), IsDown(e) => IsDown(d)
        PROVE  DownInv'
    <2>1. job' = job /\ down' = down /\ node' = [node EXCEPT ![n] = e] /\ LocksFree
      BY Zenon, <1>3 DEF NodeEvent, Requested
    <2> QED
      BY <1>3, <2>1, NodeClears, ZenonT(30)
  <1>4. CASE NotResponding(n)
    BY <1>2, <1>3, <1>4, Zenon DEF NotResponding
  <1>5. CASE Responding(n)
    BY <1>2, <1>3, <1>5, Zenon DEF Responding
  <1>6. CASE Register(n)
    BY <1>2, <1>3, <1>6, Zenon DEF Register
  <1>7. CASE Drain(n)
    BY <1>2, <1>3, <1>7, Zenon DEF Drain
  <1>8. CASE UndoDrain(n)
    BY <1>2, <1>3, <1>8, ZenonT(30) DEF UndoDrain
  <1>9. CASE SetNodeDown(n)
    <2>1. /\ LocksFree /\ job' = job /\ down' = [node |-> n, todo |-> Jobs]
          /\ node' = [node EXCEPT ![n] = MakeNodeDown(d)]
      BY Zenon, <1>9 DEF SetNodeDown, Requested
    <2>2. \A k \in Nodes : node'[k] = IF k = n THEN MakeNodeDown(d) ELSE node[k]
      BY Zenon, <2>1 DEF FullInv, IInv, TypeOK
    <2>3. down'.node = n /\ down'.todo = Jobs
      BY Zenon, <2>1
    <2>4. \A k \in Nodes, i \in Jobs : IsDown(node[k]) => ~Uses(job[i], k)
      BY Zenon, <2>1, JobClear DEF Clear
    <2>5. \A i \in Jobs : Freed(i, job[i])'
      BY Zenon, <2>1 DEF DownInv, Freed, Completing
    <2>6. (down.node # NULL => IsDown(node[down.node]))'
      BY Zenon, <1>2, <2>2, <2>3 DEF IsDown
    <2>7. ASSUME NEW k \in Nodes, NEW i \in Jobs
          PROVE  (IsDown(node[k]) /\ Uses(job[i], k) => k = down.node /\ i \in down.todo)'
      BY Zenon, <2>1, <2>2, <2>3, <2>4 DEF IsDown, Uses, OnNode, Completing
    <2> QED
      BY Zenon, <2>5, <2>6, <2>7 DEF DownInv
  <1> QED
    BY Zenon, <1>4, <1>5, <1>6, <1>7, <1>8, <1>9 DEF NodeStep

\* The messages of slurmd
LEMMA EpilogClears ==
  ASSUME FullInv, FullInv', DownInv, Requeue \subseteq Batch, NEW m \in msgs,
         NEW again \in BOOLEAN, EpilogComplete(m, again), EpilogMatches(m, job[m.job])
  PROVE  DownInv' /\ Shrinks(job[m.job], job'[m.job])
  <1> DEFINE j == m.job
             n == m.node
             o == job[j]
             r == [o EXCEPT !.epilog_failed = @ \/ m.rc # 0]
             q == NodeEpilogDone(j, r, n)
             d == IF m.rc # 0 THEN DrainNode(node[n]) ELSE node[n]
             e == MakeNodeIdle(d, n \in r.node_bitmap_cg, q.state, Expediting(q), j \in OwnerExclusive)
             nodes == [node EXCEPT ![n] = e]
             t == IF Completing(q) THEN q ELSE BatchRequeueFini(j, q)
             ns == IF Completing(q) THEN nodes ELSE ExpediteRelease(q, nodes)
  <1>1. j \in Jobs /\ n \in Nodes /\ node \in [Nodes -> NodeRecord] /\ node[n] \in NodeRecord
    BY Zenon DEF FullInv, IInv, TypeOK, Messages
  <1>2. LocksFree /\ job' = [job EXCEPT ![j] = t] /\ node' = ns /\ down' = down
    BY ZenonT(30) DEF EpilogComplete
  <1>3. o \in JobRecord /\ JobOK(o) /\ Rec(o) /\ Freed(j, o) /\ ~EpilogIgnored(o)
    BY Zenon, <1>1, JobFacts, JobRecordRec, JobClear DEF EpilogMatches
  <1>4. Rec(r) /\ SameUse(o, r)
    BY Zenon, <1>3 DEF Rec, SameUse, Completing
  <1> HIDE DEF r
  <1>5. d \in NodeRecord /\ SameDown(node[n], d)
    <2>1. DrainNode(node[n]) \in NodeRecord /\ SameDown(node[n], DrainNode(node[n]))
      BY <1>1, MakeNodeDownType, DownKept, Zenon
    <2> QED
      BY Zenon, <1>1, <2>1 DEF SameDown
  <1> HIDE DEF d
  <1>6. SameDown(d, e)
    BY <1>5, DownIdle, Zenon
  <1>7. e \in NodeRecord
    <2>1. /\ (n \in r.node_bitmap_cg) \in BOOLEAN /\ (j \in OwnerExclusive) \in BOOLEAN
          /\ Expediting(q) \in BOOLEAN
      BY SMTT(30) DEF Expediting
    <2> QED
      BY <1>5, <2>1, MakeNodeIdleType, Zenon
  <1> HIDE DEF e
  <1>8. nodes \in [Nodes -> NodeRecord] /\ AllDown(node, nodes)
    BY Zenon, <1>1, <1>5, <1>6, <1>7 DEF AllDown, SameDown
  <1> HIDE DEF nodes
  <1>9. AllDown(node, ns)
    <2>1. AllDown(nodes, ExpediteRelease(q, nodes))
      BY <1>8, Booleans, TableDown, ZenonT(30)
    <2> QED
      BY Zenon, <1>8, <2>1 DEF AllDown, SameDown
  <1>10. /\ o.state \notin Active /\ o.node_bitmap_cg # NULL
         /\ Completing(o) \/ o.state # "PENDING"
    BY Zenon, <1>3 DEF EpilogIgnored, JobOK, Freed
  <1>11. /\ r.state \notin Active /\ r.node_bitmap_cg # NULL
         /\ Completing(r) \/ r.state \notin Active \cup {"PENDING"}
         /\ Freed(j, r) /\ CgSet(r) = CgSet(o)
    BY Zenon, <1>3, <1>4, <1>10, UseKept DEF SameUse, CgSet
  <1>12. Freed(j, t) /\ t.state \notin Active /\ CgSet(t) \subseteq CgSet(r)
    BY <1>4, <1>11, EpilogFrees, ZenonT(30)
  <1> HIDE DEF t, ns
  <1>13. CgSet(t) \cap DownNodes(node) = {}
    <2>1. Clear(o, node)
      BY Zenon, <1>1, <1>2, JobClear
    <2>2. \A k \in CgSet(o) : Completing(o) /\ k \in o.node_bitmap_cg
      BY Zenon, <1>3 DEF JobOK, CgSet
    <2>3. \A k \in CgSet(o) : Uses(o, k)
      BY Zenon, <2>2 DEF Uses
    <2> QED
      BY Zenon, <1>11, <1>12, <2>1, <2>3 DEF Clear, DownNodes
  <1>16. job'[j] = t
    BY Zenon, <1>1, <1>2 DEF FullInv, IInv, TypeOK
  <1>14. Completing(t) => t.node_bitmap_cg # NULL
    <2>1. JobOK(t)
      BY Zenon, <1>1, <1>16 DEF FullInv, IInv, JobOK, Completing
    <2> QED
      BY Zenon, <2>1 DEF JobOK
  <1>15. Clear(t, node)
    BY <1>12, <1>13, <1>14, EndedClear, ZenonT(30)
  <1>17. Shrinks(o, t)
    BY Zenon, <1>11, <1>12, UseShrinks DEF Ended
  <1> QED
    BY <1>1, <1>2, <1>9, <1>12, <1>15, <1>16, <1>17, StepClears, Zenon

\* A step that changes neither the jobs nor the nodes
LEMMA RestClears ==
  ASSUME DownInv, UNCHANGED <<job, node, down>>
  PROVE  DownInv'
  BY Zenon DEF DownInv, Freed, Uses, OnNode, IsDown, Completing

\* Every step
LEMMA NextClears ==
  ASSUME Counting, FullInv, FullInv', DownInv, Requeue \subseteq Batch, [Next]_vars
  PROVE  DownInv'
  <1>1. CASE NodeDownDone
    <2> DEFINE n == down.node
               e == SyncBitmaps(node[n], 0)
    <2>1. n \in Nodes /\ node[n] \in NodeRecord
      BY Zenon, <1>1 DEF FullInv, IInv, TypeOK, NodeDownDone
    <2>2. /\ down.todo = {} /\ job' = job /\ node' = [node EXCEPT ![n] = e]
          /\ down' = [node |-> NULL, todo |-> {}]
      BY Zenon, <1>1 DEF NodeDownDone
    <2>3. SameDown(node[n], e)
      BY <2>1, DownKept, ZenonT(30)
    <2> HIDE DEF e
    <2>4. \A k \in Nodes : IsDown(node'[k]) <=> IsDown(node[k])
      BY Zenon, <2>1, <2>2, <2>3 DEF FullInv, IInv, TypeOK, SameDown
    <2>5. \A k \in Nodes, i \in Jobs : IsDown(node[k]) => ~Uses(job[i], k)
      BY Zenon, <2>2 DEF DownInv
    <2>6. \A i \in Jobs : Freed(i, job[i])'
      BY Zenon, <2>2 DEF DownInv, Freed, Completing
    <2>7. (down.node # NULL => IsDown(node[down.node]))'
      BY Zenon, <2>2
    <2>8. ASSUME NEW k \in Nodes, NEW i \in Jobs
          PROVE  (IsDown(node[k]) /\ Uses(job[i], k) => k = down.node /\ i \in down.todo)'
      BY Zenon, <2>2, <2>4, <2>5 DEF IsDown, Uses, OnNode, Completing
    <2> QED
      BY Zenon, <2>6, <2>7, <2>8 DEF DownInv
  <1>2. CASE UNCHANGED vars
    BY Zenon, <1>2, RestClears DEF vars
  <1>3. ASSUME NEW j \in Jobs, JobStep(j) \/ ScanStep(j) PROVE DownInv'
    BY Zenon, <1>3, JobStepClears, ScanStepClears
  <1>4. ASSUME NEW n \in Nodes, NodeStep(n) PROVE DownInv'
    BY Zenon, <1>4, NodeStepClears
  <1>5. ASSUME NEW m \in msgs, Receive(m) \/ LoseMessage(m) PROVE DownInv'
    <2>1. ASSUME NEW again \in BOOLEAN, EpilogComplete(m, again) PROVE DownInv'
      <3>1. CASE EpilogMatches(m, job[m.job])
        BY Zenon, <2>1, <3>1, EpilogClears
      <3>2. CASE ~EpilogMatches(m, job[m.job])
        <4>1. UNCHANGED <<job, node, down>>
          BY Zenon, <2>1, <3>2 DEF EpilogComplete
        <4> QED
          BY Zenon, <4>1, RestClears
      <3> QED
        BY Zenon, <3>1, <3>2
    <2>2. ASSUME NEW rc \in {0, 1}, SlurmdTerminateJob(m, rc) \/ LoseMessage(m) PROVE DownInv'
      BY Zenon, <2>2, RestClears DEF SlurmdTerminateJob, LoseMessage
    <2> QED
      BY Zenon, <1>5, <2>1, <2>2 DEF Receive
  <1> QED
    BY Zenon, <1>1, <1>2, <1>3, <1>4, <1>5 DEF Next

-----------------------------------------------------------------------------
(* The theorems.                                                           *)

INSTANCE FiniteSetTheorems

\* The sets of jobs and of nodes can be counted: they are finite.
LEMMA SetsCount == Counting
  <1>1. \A S \in SUBSET Nodes : IsFiniteSet(S)
    BY Zenon, FiniteAssumption, FS_Subset
  <1>2. \A P \in SUBSET Jobs : IsFiniteSet(P)
    BY Zenon, FiniteAssumption, FS_Subset
  <1>3. \A S : IsFiniteSet(S) => Cardinality(S) \in Nat /\ (Cardinality(S) = 0 <=> S = {})
    BY Zenon, FS_CardinalityType, FS_EmptySet
  <1>4. Cardinality({}) = 0 /\ \A n \in Nodes : Cardinality({n}) = 1
    BY Zenon, FS_EmptySet, FS_Singleton
  <1>5. ASSUME NEW S \in SUBSET Nodes, NEW T \in SUBSET S
        PROVE  Cardinality(S \ T) = Cardinality(S) - Cardinality(T)
    <2>1. (S \ T) \cup T = S /\ (S \ T) \cap T = {}
      BY Zenon
    <2>2. IsFiniteSet(S \ T) /\ IsFiniteSet(T)
      BY Zenon, <1>1
    <2>3. Cardinality(S) = Cardinality(S \ T) + Cardinality(T) - Cardinality({})
      BY Zenon, <2>1, <2>2, FS_Union
    <2>4. Cardinality(S) \in Nat /\ Cardinality(S \ T) \in Nat /\ Cardinality(T) \in Nat
      BY Zenon, <1>1, <1>3, <2>2
    <2>5. Cardinality(S) = Cardinality(S \ T) + Cardinality(T) - 0
      BY Zenon, <1>4, <2>3
    <2> QED
      BY SMT, <2>4, <2>5
  <1>6. ASSUME NEW P \in SUBSET Jobs, NEW j \in P
        PROVE  Cardinality(P \ {j}) = Cardinality(P) - 1
    BY <1>2, FS_RemoveElement, Zenon
  <1> QED
    BY Zenon, <1>1, <1>2, <1>3, <1>4, <1>5, <1>6 DEF Counting

\* The invariant holds in every reachable state.
LEMMA Invariance == Spec => []FullInv
  <1>1. Init => FullInv
    BY Zenon, SetsCount, InitFull
  <1>2. FullInv /\ [Next]_vars => FullInv'
    BY Zenon, SetsCount, NextPreserves
  <1> QED
    BY <1>1, <1>2, PTL DEF Spec

\* Every variable keeps its type, through every handler of the job manager.
THEOREM TypeCorrect == Spec => []TypeOK
  <1>1. FullInv => TypeOK
    BY Zenon DEF FullInv, IInv
  <1> QED
    BY <1>1, Invariance, PTL

\* What every handler relies on when it finds a job record: an active job holds
\* the nodes it counts, a completing job waits for the nodes it counts, and any
\* other job waits for nothing.
THEOREM JobRecordsWellFormed == Spec => []IInv
  <1>1. FullInv => IInv
    BY Zenon DEF FullInv
  <1> QED
    BY <1>1, Invariance, PTL

\* node_cnt, the counter cleanup_completing() tests, is the number of nodes the
\* job still waits for, whatever epilogs are lost, late or repeated.
THEOREM NodeCountsExact == Spec => []NodeCntExact
  <1>1. FullInv => NodeCntExact
    BY Zenon DEF FullInv, IInv, JobOK, NodeCntExact
  <1> QED
    BY <1>1, Invariance, PTL

\* run_job_cnt and sus_job_cnt of every node agree with the job records.
THEOREM RunCountsExact == Spec => []RunCountExact
  <1>1. FullInv => RunCountExact
    BY Zenon DEF FullInv
  <1> QED
    BY <1>1, Invariance, PTL

\* comp_job_cnt of every node is the number of jobs that complete there, as long
\* as no job uses the expedited requeue, which breaks it.
THEOREM CompCountsExact == Expedited = {} => (Spec => []CompCountExact)
  <1> SUFFICES ASSUME Expedited = {} PROVE Spec => []CompCountExact
    BY Zenon
  <1>1. FullInv => CompCountExact
    BY Zenon DEF FullInv
  <1> QED
    BY <1>1, Invariance, PTL

\* A node that is DOWN, drained or silent is never offered to the scheduler,
\* whatever order the events of the node and of its jobs come in.
THEOREM AvailableNodesHealthy == Spec => []AvailableIsHealthy
  <1>1. FullInv => AvailableIsHealthy
    BY Zenon DEF FullInv, AvailableIsHealthy, Healthy
  <1> QED
    BY <1>1, Invariance, PTL

\* A suspended job is held, and no prolog runs where none is configured.
HoldInv == \A j \in Jobs : /\ job[j].state = "SUSPENDED" => job[j].held
                           /\ job[j].prolog_running => PrologSlurmctld

\* Both hold in every reachable state.
LEMMA HoldInvariance == Spec => []HoldInv
  <1>1. Init => HoldInv
    BY SMTT(30) DEF Init, NewJob, HoldInv
  <1>2. TypeOK /\ HoldInv /\ [Next]_vars => HoldInv'
    BY Zenon, NextMoves DEF HoldInv, Moved
  <1> QED
    BY <1>1, <1>2, TypeCorrect, PTL DEF Spec

\* A suspended job that is requeued is held, whichever handler requeues it: the
\* operator, a failed launch, a lost node or an exit code of its last step.
THEOREM SuspendedHeld == Spec => SuspendedRequeueHeld
  <1> DEFINE A == \A j \in Jobs : job[j].state = "SUSPENDED" /\ job'[j].state = "PENDING" => job'[j].held
  <1>1. TypeOK /\ HoldInv /\ [Next]_vars => [A]_vars
    BY Zenon, NextMoves DEF HoldInv, Moved
  <1>2. SuspendedRequeueHeld <=> [][A]_vars
    BY Zenon DEF SuspendedRequeueHeld
  <1> HIDE DEF A
  <1> QED
    BY <1>1, <1>2, TypeCorrect, HoldInvariance, PTL DEF Spec

\* Without a slurmctld prolog a cancelled job stays cancelled until a requeue is
\* asked for, whatever messages, exit codes and node failures come after.
THEOREM CancelIsFinal == ~PrologSlurmctld => (Spec => CancelFinal)
  <1> SUFFICES ASSUME ~PrologSlurmctld PROVE Spec => CancelFinal
    BY Zenon
  <1> DEFINE A == \A j \in Jobs : job[j].state = "CANCELLED" /\ job'[j].state # "CANCELLED"
                     => \E kind \in {"plain", "hold", "launch_failed"} : RequeueOp(j, kind)
  <1>1. TypeOK /\ HoldInv /\ [Next]_vars => [A]_vars
    BY Zenon, NextMoves DEF HoldInv, Moved, Asked
  <1>2. CancelFinal <=> [][A]_vars
    BY Zenon DEF CancelFinal
  <1> HIDE DEF A
  <1> QED
    BY <1>1, <1>2, TypeCorrect, HoldInvariance, PTL DEF Spec

\* What the handlers keep of the DOWN nodes holds in every reachable state.
LEMMA DownInvariance == Requeue \subseteq Batch => (Spec => []DownInv)
  <1> SUFFICES ASSUME Requeue \subseteq Batch PROVE Spec => []DownInv
    BY Zenon
  <1>1. Init => DownInv
    <2> SUFFICES ASSUME Init PROVE DownInv
      BY Zenon
    <2>1. \A j \in Jobs : job[j].state = "PENDING" /\ job[j].flags = {} /\ job[j].node_bitmap_cg = NULL
      BY Zenon DEF Init, NewJob
    <2>2. \A j \in Jobs : Freed(j, job[j]) /\ job[j].state \notin Active /\ ~Completing(job[j])
      BY Zenon, <2>1 DEF Freed, Completing, Active
    <2>3. down.node = NULL
      BY Zenon DEF Init
    <2> QED
      BY Zenon, <2>2, <2>3 DEF DownInv, Uses
  <1>2. FullInv /\ FullInv' /\ DownInv /\ [Next]_vars => DownInv'
    BY Zenon, SetsCount, NextClears
  <1> QED
    BY <1>1, <1>2, Invariance, PTL DEF Spec

\* When the scan of a node failure is over, no job runs on the node, is suspended
\* there or waits for its epilog, and no handler ever puts one back there while
\* the node is DOWN.  Only batch jobs may be requeued: an interactive job that
\* RequeueExit puts back in the queue keeps an empty node_bitmap_cg.
THEOREM DownNodesUnused == Requeue \subseteq Batch => (Spec => []DownNodeUnused)
  <1> SUFFICES ASSUME Requeue \subseteq Batch PROVE Spec => []DownNodeUnused
    BY Zenon
  <1>1. FullInv /\ DownInv => DownNodeUnused
    <2> SUFFICES ASSUME FullInv, DownInv, LocksFree, NEW n \in Nodes, IsDown(node[n])
                 PROVE  RunningOn(n) \cup SuspendedOn(n) \cup CompletingOn(n) = {}
      BY Zenon DEF DownNodeUnused
    <2>1. \A j \in Jobs : ~Uses(job[j], n)
      BY Zenon, JobClear DEF Clear
    <2> QED
      BY Zenon, <2>1 DEF Uses, RunningOn, SuspendedOn, CompletingOn, Active
  <1>2. Spec => []DownInv
    BY Zenon, DownInvariance
  <1> QED
    BY <1>1, <1>2, Invariance, PTL

=============================================================================
