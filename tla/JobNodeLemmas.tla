--------------------------- MODULE JobNodeLemmas ----------------------------
(***************************************************************************)
(* What the operations of NodeMgr do to one node record: its type, the     *)
(* counters of running, suspended and completing jobs, the bit in          *)
(* avail_node_bitmap, DOWN, and the agreement of state, bitmaps and        *)
(* counters.  What the operators of JobNode do to one job record and to    *)
(* the counters of the nodes it holds.  Then its steps, one lemma each:    *)
(* those that end or requeue a job, those that move it off its nodes one   *)
(* by one (epilogs, re-kills, node failures), and start, suspend and       *)
(* resume keep the job record well formed and move the counters of its     *)
(* nodes with it.  Last, what every step keeps of the hold of a suspended  *)
(* and of the state of a cancelled job (Moved).                            *)
(***************************************************************************)
EXTENDS JobNode, TLAPS

(* One node.                                                               *)

\* The node may be offered to the scheduler only if it is in service.
Healthy(d) == d.avail => ~IsDown(d) /\ ~d.drain /\ ~d.no_respond

SameCounts(d, e) == /\ e.run_job_cnt  = d.run_job_cnt
                    /\ e.sus_job_cnt  = d.sus_job_cnt
                    /\ e.comp_job_cnt = d.comp_job_cnt

\* A saturating decrement of a counter is a counter.
LEMMA DecrType == ASSUME NEW k \in Nat PROVE Decr(k) \in Nat
  BY DEF Decr

\* The three base states are base states.
LEMMA Bases == "IDLE" \in NodeBase /\ "ALLOCATED" \in NodeBase /\ "DOWN" \in NodeBase
  BY Zenon DEF NodeBase

\* The state of a node after slurmctld has started is a node record.
LEMMA FreshNodeFacts ==
  /\ FreshNode \in NodeRecord
  /\ Healthy(FreshNode)
  /\ FreshNode.run_job_cnt = 0 /\ FreshNode.sus_job_cnt = 0 /\ FreshNode.comp_job_cnt = 0
  <1>1. FreshNode \in NodeRecord
    BY Zenon DEF FreshNode, NodeRecord, NodeBase
  <1> QED
    BY Zenon, <1>1 DEF FreshNode, Healthy, IsDown

-----------------------------------------------------------------------------
(* Types.                                                                  *)

\* make_node_alloc()
LEMMA MakeNodeAllocType ==
  ASSUME NEW d \in NodeRecord, NEW excl \in BOOLEAN, NEW own \in BOOLEAN, NEW user \in Users
  PROVE  MakeNodeAlloc(d, excl, own, user) \in NodeRecord
  <1>1. d.run_job_cnt + 1 \in Nat /\ d.no_share_job_cnt + 1 \in Nat /\ d.owner_job_cnt + 1 \in Nat
    BY DEF NodeRecord
  <1> QED
    BY ZenonT(30), <1>1, Bases DEF NodeRecord, MakeNodeAlloc

\* make_node_comp()
LEMMA MakeNodeCompType ==
  ASSUME NEW d \in NodeRecord, NEW excl \in BOOLEAN, NEW suspended \in BOOLEAN
  PROVE  MakeNodeComp(d, excl, suspended) \in NodeRecord
  <1> DEFINE run     == IF suspended THEN d.run_job_cnt ELSE Decr(d.run_job_cnt)
             comp    == IF IsDown(d) THEN d.comp_job_cnt ELSE d.comp_job_cnt + 1
             leaves  == excl /\ ~suspended
             noShare == IF leaves THEN Decr(d.no_share_job_cnt) ELSE d.no_share_job_cnt
             sus     == IF suspended THEN Decr(d.sus_job_cnt) ELSE d.sus_job_cnt
             share   == d.share \/ (leaves /\ noShare = 0)
             flag    == d.completing \/ ~IsDown(d)
             idle    == d.idle \/ (run = 0 /\ comp = 0)
             base    == CASE IsDown(d) -> "DOWN"
                          [] ~IsDown(d) /\ run > 0 -> "ALLOCATED"
                          [] OTHER -> "IDLE"
  <1>1. run \in Nat /\ comp \in Nat /\ noShare \in Nat /\ sus \in Nat
    BY DecrType DEF NodeRecord
  <1>2. base \in NodeBase
    BY Zenon DEF NodeBase
  <1>3. share \in BOOLEAN /\ flag \in BOOLEAN /\ idle \in BOOLEAN
    BY Zenon
  <1>4. MakeNodeComp(d, excl, suspended)
          = [d EXCEPT !.sus_job_cnt = sus, !.run_job_cnt = run, !.no_share_job_cnt = noShare,
                      !.share = share, !.comp_job_cnt = comp, !.completing = flag,
                      !.idle = idle, !.base = base]
    BY Zenon DEF MakeNodeComp
  <1> HIDE DEF run, comp, leaves, noShare, sus, share, flag, idle, base
  <1> QED
    BY ZenonT(30), <1>1, <1>2, <1>3, <1>4 DEF NodeRecord

\* _suspend_job_nodes()
LEMMA SuspendJobNodeType ==
  ASSUME NEW d \in NodeRecord, NEW excl \in BOOLEAN
  PROVE  SuspendJobNode(d, excl) \in NodeRecord
  <1> DEFINE run     == Decr(d.run_job_cnt)
             noShare == IF excl THEN Decr(d.no_share_job_cnt) ELSE d.no_share_job_cnt
             sus     == d.sus_job_cnt + 1
             share   == d.share \/ (excl /\ noShare = 0)
             idle    == d.idle \/ (run = 0 /\ d.comp_job_cnt = 0)
             base    == CASE IsDown(d) -> "DOWN"
                          [] ~IsDown(d) /\ run > 0 -> "ALLOCATED"
                          [] OTHER -> "IDLE"
  <1>1. run \in Nat /\ noShare \in Nat /\ sus \in Nat
    BY DecrType DEF NodeRecord
  <1>2. base \in NodeBase
    BY Zenon DEF NodeBase
  <1>3. share \in BOOLEAN /\ idle \in BOOLEAN
    BY Zenon
  <1>4. SuspendJobNode(d, excl)
          = [d EXCEPT !.sus_job_cnt = sus, !.run_job_cnt = run, !.no_share_job_cnt = noShare,
                      !.share = share, !.idle = idle, !.base = base]
    BY Zenon DEF SuspendJobNode
  <1> HIDE DEF run, noShare, sus, share, idle, base
  <1> QED
    BY Zenon, <1>1, <1>2, <1>3, <1>4 DEF NodeRecord

\* _resume_job_nodes()
LEMMA ResumeJobNodeType ==
  ASSUME NEW d \in NodeRecord, NEW excl \in BOOLEAN
  PROVE  ResumeJobNode(d, excl) \in NodeRecord
  <1> DEFINE run     == d.run_job_cnt + 1
             noShare == IF excl THEN d.no_share_job_cnt + 1 ELSE d.no_share_job_cnt
             sus     == Decr(d.sus_job_cnt)
             share   == d.share /\ ~excl
  <1>1. run \in Nat /\ noShare \in Nat /\ sus \in Nat
    BY DecrType DEF NodeRecord
  <1>2. share \in BOOLEAN /\ FALSE \in BOOLEAN
    BY Zenon
  <1>3. ResumeJobNode(d, excl)
          = [d EXCEPT !.sus_job_cnt = sus, !.run_job_cnt = run, !.no_share_job_cnt = noShare,
                      !.share = share, !.idle = FALSE, !.base = "ALLOCATED"]
    BY Zenon DEF ResumeJobNode
  <1> HIDE DEF run, noShare, sus, share
  <1> QED
    BY Zenon, <1>1, <1>2, <1>3, Bases DEF NodeRecord

\* make_node_idle(node, NULL)
LEMMA RefreshIdleType ==
  ASSUME NEW d \in NodeRecord
  PROVE  RefreshIdle(d) \in NodeRecord
  <1> DEFINE quiet == d.comp_job_cnt = 0
             flag  == d.completing /\ ~quiet
             owner == IF quiet /\ d.base = "IDLE" THEN NO_VAL ELSE d.owner
             e     == [d EXCEPT !.completing = flag, !.owner = owner]
             empty == d.run_job_cnt = 0 /\ quiet
             avail == ~e.drain /\ ~e.no_respond
             base  == CASE e.drain -> (IF empty THEN "IDLE" ELSE e.base)
                        [] ~e.drain /\ d.run_job_cnt > 0 -> "ALLOCATED"
                        [] OTHER -> "IDLE"
             idle  == e.idle \/ IF e.drain THEN empty
                                ELSE /\ d.run_job_cnt = 0
                                     /\ ~e.no_respond /\ ~e.completing
  <1>1. flag \in BOOLEAN /\ avail \in BOOLEAN /\ idle \in BOOLEAN
    BY Zenon
  <1>2. owner \in Users \cup {NO_VAL}
    BY Zenon DEF NodeRecord
  <1>3. RefreshIdle(d) = IF IsDown(e) THEN e
                         ELSE [e EXCEPT !.avail = avail, !.base = base, !.idle = idle]
    BY Zenon DEF RefreshIdle
  <1>4. e \in NodeRecord
    <2> HIDE DEF flag, owner
    <2> QED BY <1>1, <1>2, Zenon DEF NodeRecord
  <1>5. base \in NodeBase
    <2>1. e.base \in NodeBase
      BY <1>4, Zenon DEF NodeRecord
    <2> HIDE DEF e
    <2> QED
      BY Zenon, <2>1 DEF NodeBase
  <1> HIDE DEF e, avail, base, idle
  <1> QED
    BY <1>1, <1>3, <1>4, <1>5, Zenon DEF NodeRecord

\* The decrement of make_node_idle() and of batch_requeue_fini().
LEMMA LeavePhaseType ==
  ASSUME NEW d \in NodeRecord, NEW phase, NEW expediting
  PROVE  /\ LeavePhase(d, phase, expediting) \in NodeRecord
         /\ [d EXCEPT !.comp_job_cnt = Decr(@)] \in NodeRecord
  <1>1. Decr(d.sus_job_cnt) \in Nat /\ Decr(d.run_job_cnt) \in Nat /\ Decr(d.comp_job_cnt) \in Nat
    BY Zenon, DecrType DEF NodeRecord
  <1>2. /\ [d EXCEPT !.sus_job_cnt = Decr(@)] \in NodeRecord
        /\ [d EXCEPT !.run_job_cnt = Decr(@)] \in NodeRecord
        /\ [d EXCEPT !.comp_job_cnt = Decr(@)] \in NodeRecord
    BY <1>1, Zenon DEF NodeRecord
  <1> QED
    BY Zenon, <1>2 DEF LeavePhase

\* The bookkeeping of the owner at the end of make_node_idle().
LEMMA OwnerFiniType ==
  ASSUME NEW d \in NodeRecord, NEW own \in BOOLEAN
  PROVE  OwnerFini(d, own) \in NodeRecord
  <1>1. CASE own /\ d.owner_job_cnt > 0
    <2>1. d.owner_job_cnt - 1 \in Nat
      BY <1>1 DEF NodeRecord
    <2> QED
      BY <1>1, <2>1, Zenon DEF NodeRecord, OwnerFini
  <1>2. CASE ~(own /\ d.owner_job_cnt > 0)
    BY Zenon, <1>2 DEF OwnerFini
  <1> QED
    BY Zenon, <1>1, <1>2

\* make_node_idle()
LEMMA MakeNodeIdleType ==
  ASSUME NEW d \in NodeRecord, NEW fresh, NEW phase, NEW expediting, NEW own \in BOOLEAN
  PROVE  MakeNodeIdle(d, fresh, phase, expediting, own) \in NodeRecord
  BY LeavePhaseType, RefreshIdleType, OwnerFiniType, Zenon DEF MakeNodeIdle

\* _make_node_down(), _drain_node(), node_not_resp()
LEMMA MakeNodeDownType ==
  ASSUME NEW d \in NodeRecord
  PROVE  MakeNodeDown(d) \in NodeRecord /\ DrainNode(d) \in NodeRecord /\ NodeNotResp(d) \in NodeRecord
  BY Bases, Zenon DEF NodeRecord, MakeNodeDown, DrainNode, NodeNotResp

\* _sync_bitmaps()
LEMMA SyncBitmapsType ==
  ASSUME NEW d \in NodeRecord, NEW jobCount
  PROVE  SyncBitmaps(d, jobCount) \in NodeRecord
  <1>1. /\ (d.idle \/ jobCount = 0) \in BOOLEAN /\ (d.share \/ jobCount = 0) \in BOOLEAN
        /\ (~IsDown(d) /\ ~d.drain /\ ~d.no_respond) \in BOOLEAN
    BY Zenon
  <1> QED
    BY Zenon, <1>1 DEF NodeRecord, SyncBitmaps

\* node_did_resp()
LEMMA NodeDidRespType ==
  ASSUME NEW d \in NodeRecord, NEW returns
  PROVE  NodeDidResp(d, returns) \in NodeRecord
  <1> DEFINE e == [d EXCEPT !.no_respond = FALSE,
                            !.base = IF IsDown(d) /\ returns THEN "IDLE" ELSE @]
             free == e.base = "IDLE" /\ ~e.completing
             idle == e.idle \/ free
             share == e.share \/ free
             avail == ~IsDown(e) /\ ~e.drain
  <1>1. e \in NodeRecord
    BY Bases, Zenon DEF NodeRecord
  <1>2. idle \in BOOLEAN /\ share \in BOOLEAN /\ avail \in BOOLEAN
    BY Zenon
  <1>3. NodeDidResp(d, returns) = [e EXCEPT !.idle = idle, !.share = share, !.avail = avail]
    BY Zenon DEF NodeDidResp
  <1> HIDE DEF e, idle, share, avail
  <1> QED
    BY <1>1, <1>2, <1>3, Zenon DEF NodeRecord

\* scontrol update State=RESUME
LEMMA ResumeNodeType ==
  ASSUME NEW d \in NodeRecord
  PROVE  ResumeNode(d) \in NodeRecord
  <1> DEFINE base == IF IsDown(d) THEN "IDLE" ELSE d.base
             idle == base = "IDLE"
  <1>1. base \in NodeBase /\ idle \in BOOLEAN /\ TRUE \in BOOLEAN /\ FALSE \in BOOLEAN
    BY Bases, Zenon DEF NodeRecord
  <1>2. ResumeNode(d) = [d EXCEPT !.drain = FALSE, !.no_respond = TRUE, !.base = base, !.idle = idle]
    BY Zenon DEF ResumeNode
  <1> HIDE DEF base, idle
  <1> QED
    BY <1>1, <1>2, Zenon DEF NodeRecord

\* validate_node_specs()
LEMMA ValidateNodeSpecsType ==
  ASSUME NEW d \in NodeRecord, NEW returns
  PROVE  ValidateNodeSpecs(d, returns) \in NodeRecord
  <1> DEFINE jobs == d.run_job_cnt + d.comp_job_cnt
             e == [d EXCEPT !.no_respond = FALSE]
             f == CASE IsDown(e) /\ returns ->
                         [e EXCEPT !.base = IF jobs > 0 THEN "ALLOCATED" ELSE "IDLE"]
                    [] e.base = "ALLOCATED" /\ jobs = 0 -> [e EXCEPT !.base = "IDLE"]
                    [] e.base # "ALLOCATED" /\ ~IsDown(e) /\ e.completing /\ jobs = 0 ->
                         [e EXCEPT !.completing = FALSE]
                    [] e.base = "IDLE" /\ jobs # 0 ->
                         [e EXCEPT !.base = IF e.run_job_cnt # 0 THEN "ALLOCATED" ELSE @,
                                   !.completing = @ \/ e.comp_job_cnt # 0]
                    [] OTHER -> e
             g == [f EXCEPT !.owner = IF f.base = "IDLE" THEN NO_VAL ELSE @]
  <1>1. ValidateNodeSpecs(d, returns) = SyncBitmaps(g, jobs)
    BY Zenon DEF ValidateNodeSpecs
  <1>2. e \in NodeRecord
    BY Zenon DEF NodeRecord
  <1> HIDE DEF e, jobs
  <1>3. (e.completing \/ e.comp_job_cnt # 0) \in BOOLEAN
    BY Zenon
  <1>4. /\ [e EXCEPT !.base = IF jobs > 0 THEN "ALLOCATED" ELSE "IDLE"] \in NodeRecord
        /\ [e EXCEPT !.base = "IDLE"] \in NodeRecord
        /\ [e EXCEPT !.completing = FALSE] \in NodeRecord
    BY <1>2, Bases, Zenon DEF NodeRecord
  <1>5. [e EXCEPT !.base = IF e.run_job_cnt # 0 THEN "ALLOCATED" ELSE @,
                  !.completing = @ \/ e.comp_job_cnt # 0] \in NodeRecord
    BY <1>2, <1>3, Bases, Zenon DEF NodeRecord
  <1>6. f \in NodeRecord
    BY Zenon, <1>2, <1>4, <1>5
  <1> HIDE DEF f
  <1>7. g \in NodeRecord
    BY <1>6, Zenon DEF NodeRecord
  <1> HIDE DEF g
  <1> QED
    BY <1>1, <1>7, SyncBitmapsType, Zenon

-----------------------------------------------------------------------------
(* avail_node_bitmap: no operation makes an unhealthy node available.      *)

\* Operations that leave avail_node_bitmap alone, or set it from the state.
LEMMA HealthyKept ==
  ASSUME NEW d \in NodeRecord, Healthy(d), NEW excl, NEW suspended, NEW jobCount, NEW returns
  PROVE  /\ Healthy(MakeNodeComp(d, excl, suspended))
         /\ Healthy(SuspendJobNode(d, excl))
         /\ Healthy([d EXCEPT !.comp_job_cnt = Decr(@)])
         /\ Healthy(MakeNodeDown(d))
         /\ Healthy(DrainNode(d))
         /\ Healthy(NodeNotResp(d))
         /\ Healthy(SyncBitmaps(d, jobCount))
         /\ Healthy(NodeDidResp(d, returns))
  <1>1. Healthy(MakeNodeComp(d, excl, suspended))
    BY Zenon DEF NodeRecord, NodeBase, MakeNodeComp, Healthy, IsDown
  <1>2. Healthy(SuspendJobNode(d, excl))
    BY Zenon DEF NodeRecord, NodeBase, SuspendJobNode, Healthy, IsDown
  <1>3. Healthy([d EXCEPT !.comp_job_cnt = Decr(@)])
    BY Zenon DEF NodeRecord, NodeBase, Healthy, IsDown
  <1>4. Healthy(MakeNodeDown(d)) /\ Healthy(DrainNode(d)) /\ Healthy(NodeNotResp(d))
    BY Zenon DEF NodeRecord, NodeBase, MakeNodeDown, DrainNode, NodeNotResp, Healthy, IsDown
  <1>5. Healthy(SyncBitmaps(d, jobCount))
    BY Zenon DEF NodeRecord, NodeBase, SyncBitmaps, Healthy, IsDown
  <1>6. Healthy(NodeDidResp(d, returns))
    BY Zenon DEF NodeRecord, NodeBase, NodeDidResp, Healthy, IsDown
  <1> QED
    BY Zenon, <1>1, <1>2, <1>3, <1>4, <1>5, <1>6

\* make_node_alloc() and _resume_job_nodes() make the node ALLOCATED.
LEMMA HealthyAlloc ==
  ASSUME NEW d \in NodeRecord, Healthy(d), NEW excl, NEW own, NEW user
  PROVE  /\ Healthy(MakeNodeAlloc(d, excl, own, user))
         /\ Healthy(ResumeJobNode(d, excl))
  BY Zenon DEF NodeRecord, NodeBase, MakeNodeAlloc, ResumeJobNode, Healthy, IsDown

\* make_node_idle()
LEMMA HealthyIdle ==
  ASSUME NEW d \in NodeRecord, Healthy(d), NEW fresh, NEW phase, NEW expediting, NEW own \in BOOLEAN
  PROVE  /\ Healthy(RefreshIdle(d))
         /\ Healthy(MakeNodeIdle(d, fresh, phase, expediting, own))
  <1> DEFINE e == IF fresh THEN LeavePhase(d, phase, expediting) ELSE d
             f == IF /\ fresh
                     /\ phase \notin {"RUNNING", "SUSPENDED"}
                     /\ e.comp_job_cnt > 0
                  THEN e ELSE RefreshIdle(e)
  <1>1. \A x \in NodeRecord : Healthy(x) => Healthy(RefreshIdle(x))
    BY DEF NodeRecord, NodeBase, RefreshIdle, Healthy, IsDown
  <1>2. e \in NodeRecord
    BY LeavePhaseType, Zenon
  <1>3. Healthy(e)
    BY Zenon DEF NodeRecord, NodeBase, LeavePhase, Healthy, IsDown
  <1>4. f \in NodeRecord /\ Healthy(f)
    <2> HIDE DEF e
    <2> QED BY <1>1, <1>2, <1>3, RefreshIdleType, Zenon
  <1>5. MakeNodeIdle(d, fresh, phase, expediting, own) = OwnerFini(f, own)
    BY Zenon DEF MakeNodeIdle
  <1> HIDE DEF f
  <1>6. Healthy(OwnerFini(f, own))
    BY Zenon, <1>4 DEF NodeRecord, NodeBase, OwnerFini, Healthy, IsDown
  <1> QED
    BY Zenon, <1>1, <1>5, <1>6

\* RESUME and registration.
LEMMA HealthyReturn ==
  ASSUME NEW d \in NodeRecord, Healthy(d), NEW returns
  PROVE  /\ IsDown(d) \/ d.drain => Healthy(ResumeNode(d))
         /\ Healthy(ValidateNodeSpecs(d, returns))
  BY DEF NodeRecord, NodeBase, ResumeNode, ValidateNodeSpecs, SyncBitmaps, Healthy, IsDown

-----------------------------------------------------------------------------
(* The counters.                                                           *)

\* make_node_alloc() counts one job more.
LEMMA AllocCounts ==
  ASSUME NEW d \in NodeRecord, NEW excl, NEW own, NEW user
  PROVE  /\ MakeNodeAlloc(d, excl, own, user).run_job_cnt = d.run_job_cnt + 1
         /\ MakeNodeAlloc(d, excl, own, user).sus_job_cnt = d.sus_job_cnt
         /\ MakeNodeAlloc(d, excl, own, user).comp_job_cnt = d.comp_job_cnt
  BY Zenon DEF NodeRecord, NodeBase, MakeNodeAlloc

\* make_node_comp() moves the job to the completing ones, unless the node is DOWN.
LEMMA CompCounts ==
  ASSUME NEW d \in NodeRecord, NEW excl, NEW suspended \in BOOLEAN
  PROVE  /\ MakeNodeComp(d, excl, suspended).run_job_cnt =
              (IF suspended THEN d.run_job_cnt ELSE Decr(d.run_job_cnt))
         /\ MakeNodeComp(d, excl, suspended).sus_job_cnt =
              (IF suspended THEN Decr(d.sus_job_cnt) ELSE d.sus_job_cnt)
         /\ MakeNodeComp(d, excl, suspended).comp_job_cnt =
              (IF IsDown(d) THEN d.comp_job_cnt ELSE d.comp_job_cnt + 1)
  BY Zenon DEF NodeRecord, NodeBase, MakeNodeComp

\* The suspend code moves one job between the running and the suspended ones.
LEMMA SuspendCounts ==
  ASSUME NEW d \in NodeRecord, NEW excl
  PROVE  /\ SuspendJobNode(d, excl).run_job_cnt = Decr(d.run_job_cnt)
         /\ SuspendJobNode(d, excl).sus_job_cnt = d.sus_job_cnt + 1
         /\ SuspendJobNode(d, excl).comp_job_cnt = d.comp_job_cnt
         /\ ResumeJobNode(d, excl).run_job_cnt = d.run_job_cnt + 1
         /\ ResumeJobNode(d, excl).sus_job_cnt = Decr(d.sus_job_cnt)
         /\ ResumeJobNode(d, excl).comp_job_cnt = d.comp_job_cnt
  BY Zenon DEF NodeRecord, NodeBase, SuspendJobNode, ResumeJobNode

\* make_node_idle() subtracts the job from the counter of its phase, once.
LEMMA IdleCounts ==
  ASSUME NEW d \in NodeRecord, NEW fresh \in BOOLEAN, NEW phase,
         NEW expediting \in BOOLEAN, NEW own \in BOOLEAN
  PROVE  LET e == MakeNodeIdle(d, fresh, phase, expediting, own)
         IN /\ e.run_job_cnt = (IF fresh /\ phase = "RUNNING"
                                THEN Decr(d.run_job_cnt) ELSE d.run_job_cnt)
            /\ e.sus_job_cnt = (IF fresh /\ phase = "SUSPENDED"
                                THEN Decr(d.sus_job_cnt) ELSE d.sus_job_cnt)
            /\ e.comp_job_cnt = (IF fresh /\ phase \notin {"RUNNING", "SUSPENDED"} /\ ~expediting
                                 THEN Decr(d.comp_job_cnt) ELSE d.comp_job_cnt)
  <1> DEFINE e == IF fresh THEN LeavePhase(d, phase, expediting) ELSE d
             f == IF /\ fresh
                     /\ phase \notin {"RUNNING", "SUSPENDED"}
                     /\ e.comp_job_cnt > 0
                  THEN e ELSE RefreshIdle(e)
  <1>1. \A x \in NodeRecord : SameCounts(x, RefreshIdle(x))
    BY DEF NodeRecord, NodeBase, RefreshIdle, SameCounts, IsDown
  <1>2. e \in NodeRecord
    BY LeavePhaseType, Zenon
  <1>3. /\ e.run_job_cnt = (IF fresh /\ phase = "RUNNING"
                            THEN Decr(d.run_job_cnt) ELSE d.run_job_cnt)
        /\ e.sus_job_cnt = (IF fresh /\ phase = "SUSPENDED"
                            THEN Decr(d.sus_job_cnt) ELSE d.sus_job_cnt)
        /\ e.comp_job_cnt = (IF fresh /\ phase \notin {"RUNNING", "SUSPENDED"} /\ ~expediting
                             THEN Decr(d.comp_job_cnt) ELSE d.comp_job_cnt)
    BY Zenon DEF NodeRecord, NodeBase, LeavePhase
  <1>4. f \in NodeRecord /\ SameCounts(e, f)
    <2>1. SameCounts(e, e)
      BY Zenon DEF SameCounts
    <2> HIDE DEF e
    <2> QED BY <1>1, <1>2, <2>1, RefreshIdleType, Zenon
  <1>5. MakeNodeIdle(d, fresh, phase, expediting, own) = OwnerFini(f, own)
    BY Zenon DEF MakeNodeIdle
  <1> HIDE DEF e, f
  <1>6. SameCounts(f, OwnerFini(f, own))
    BY Zenon, <1>4 DEF NodeRecord, NodeBase, OwnerFini, SameCounts
  <1> QED
    BY Zenon, <1>3, <1>4, <1>5, <1>6 DEF SameCounts

\* deallocate_nodes() of a job that was never launched calls it for an ended job.
LEMMA IdleCountsEnded ==
  ASSUME NEW d \in NodeRecord, NEW phase, phase \notin {"RUNNING", "SUSPENDED"},
         NEW own \in BOOLEAN
  PROVE  LET e == MakeNodeIdle(d, TRUE, phase, FALSE, own)
         IN /\ e.run_job_cnt = d.run_job_cnt
            /\ e.sus_job_cnt = d.sus_job_cnt
            /\ e.comp_job_cnt = Decr(d.comp_job_cnt)
  <1> DEFINE yes == TRUE
             no  == FALSE
             e   == MakeNodeIdle(d, yes, phase, no, own)
  <1>1. yes \in BOOLEAN /\ no \in BOOLEAN
    BY Zenon
  <1>2. yes = TRUE /\ no = FALSE
    BY Zenon
  <1> HIDE DEF yes, no
  <1>3. /\ e.run_job_cnt = (IF yes /\ phase = "RUNNING"
                            THEN Decr(d.run_job_cnt) ELSE d.run_job_cnt)
        /\ e.sus_job_cnt = (IF yes /\ phase = "SUSPENDED"
                            THEN Decr(d.sus_job_cnt) ELSE d.sus_job_cnt)
        /\ e.comp_job_cnt = (IF yes /\ phase \notin {"RUNNING", "SUSPENDED"} /\ ~no
                             THEN Decr(d.comp_job_cnt) ELSE d.comp_job_cnt)
    BY <1>1, IdleCounts
  <1> QED
    BY <1>2, <1>3, Zenon

\* Everything else leaves the counters alone.
LEMMA CountsKept ==
  ASSUME NEW d \in NodeRecord, NEW jobCount, NEW returns
  PROVE  /\ SameCounts(d, RefreshIdle(d))
         /\ SameCounts(d, MakeNodeDown(d))
         /\ SameCounts(d, DrainNode(d))
         /\ SameCounts(d, NodeNotResp(d))
         /\ SameCounts(d, NodeDidResp(d, returns))
         /\ SameCounts(d, ResumeNode(d))
         /\ SameCounts(d, SyncBitmaps(d, jobCount))
         /\ SameCounts(d, ValidateNodeSpecs(d, returns))
  <1>1. SameCounts(d, RefreshIdle(d))
    BY Zenon DEF NodeRecord, NodeBase, RefreshIdle, SameCounts, IsDown
  <1>2. /\ SameCounts(d, MakeNodeDown(d)) /\ SameCounts(d, DrainNode(d))
        /\ SameCounts(d, NodeNotResp(d)) /\ SameCounts(d, SyncBitmaps(d, jobCount))
    BY Zenon DEF NodeRecord, NodeBase, MakeNodeDown, DrainNode, NodeNotResp, SyncBitmaps, SameCounts, IsDown
  <1>3. SameCounts(d, NodeDidResp(d, returns)) /\ SameCounts(d, ResumeNode(d))
    BY Zenon DEF NodeRecord, NodeBase, NodeDidResp, ResumeNode, SameCounts, IsDown
  <1>4. SameCounts(d, ValidateNodeSpecs(d, returns))
    BY DEF NodeRecord, NodeBase, ValidateNodeSpecs, SyncBitmaps, SameCounts, IsDown
  <1> QED
    BY Zenon, <1>1, <1>2, <1>3, <1>4

-----------------------------------------------------------------------------
(* DOWN.                                                                   *)

\* The node is DOWN exactly if it was.
SameDown(d, e) == IsDown(e) <=> IsDown(d)

\* What the jobs do to a node neither takes it DOWN nor brings it back.
LEMMA DownKept ==
  ASSUME NEW d \in NodeRecord, NEW excl, NEW own, NEW user, NEW suspended, NEW fresh, NEW phase,
         NEW expediting, NEW jobCount, NEW k
  PROVE  /\ SameDown(d, RefreshIdle(d))
         /\ SameDown(d, [d EXCEPT !.comp_job_cnt = k])
         /\ SameDown(d, MakeNodeComp(d, excl, suspended))
         /\ SameDown(d, SuspendJobNode(d, excl))
         /\ ~IsDown(MakeNodeAlloc(d, excl, own, user)) /\ ~IsDown(ResumeJobNode(d, excl))
         /\ SameDown(d, SyncBitmaps(d, jobCount)) /\ SameDown(d, DrainNode(d))
  <1>1. SameDown(d, RefreshIdle(d))
    BY Zenon DEF NodeRecord, NodeBase, RefreshIdle, SameDown, IsDown
  <1>2. SameDown(d, MakeNodeComp(d, excl, suspended)) /\ SameDown(d, SuspendJobNode(d, excl))
    BY Zenon DEF NodeRecord, NodeBase, MakeNodeComp, SuspendJobNode, SameDown, IsDown
  <1>3. ~IsDown(MakeNodeAlloc(d, excl, own, user)) /\ ~IsDown(ResumeJobNode(d, excl))
    BY Zenon DEF NodeRecord, NodeBase, MakeNodeAlloc, ResumeJobNode, IsDown
  <1>4. SameDown(d, SyncBitmaps(d, jobCount)) /\ SameDown(d, DrainNode(d))
        /\ SameDown(d, [d EXCEPT !.comp_job_cnt = k])
    BY Zenon DEF NodeRecord, NodeBase, SyncBitmaps, DrainNode, SameDown, IsDown
  <1> QED
    BY Zenon, <1>1, <1>2, <1>3, <1>4

\* make_node_idle()
LEMMA DownIdle ==
  ASSUME NEW d \in NodeRecord, NEW fresh, NEW phase, NEW expediting, NEW own
  PROVE  SameDown(d, MakeNodeIdle(d, fresh, phase, expediting, own))
  <1> DEFINE e == IF fresh THEN LeavePhase(d, phase, expediting) ELSE d
  <1>1. e \in NodeRecord
    BY LeavePhaseType, Zenon
  <1>2. SameDown(d, LeavePhase(d, phase, expediting))
    BY Zenon DEF LeavePhase, NodeRecord, NodeBase, SameDown, IsDown
  <1>3. SameDown(d, e)
    BY Zenon, <1>2 DEF SameDown
  <1> HIDE DEF e
  <1>4. RefreshIdle(e) \in NodeRecord /\ SameDown(e, RefreshIdle(e))
    BY <1>1, RefreshIdleType, DownKept, Zenon
  <1>5. ASSUME NEW x \in NodeRecord PROVE SameDown(x, OwnerFini(x, own))
    BY Zenon DEF OwnerFini, NodeRecord, NodeBase, SameDown, IsDown
  <1>6. MakeNodeIdle(d, fresh, phase, expediting, own) \in {OwnerFini(e, own), OwnerFini(RefreshIdle(e), own)}
    BY Zenon DEF MakeNodeIdle, e
  <1> QED
    BY Zenon, <1>1, <1>3, <1>4, <1>5, <1>6 DEF SameDown

\* A DOWN node comes back by an event of its own, and only SetNodeDown takes it DOWN.
LEMMA DownEvents ==
  ASSUME NEW d \in NodeRecord, NEW returns
  PROVE  /\ IsDown(NodeNotResp(d)) => IsDown(d)
         /\ IsDown(NodeDidResp(d, returns)) => IsDown(d)
         /\ IsDown(ValidateNodeSpecs(d, returns)) => IsDown(d)
         /\ IsDown(DrainNode(d)) => IsDown(d)
         /\ IsDown(ResumeNode(d)) => IsDown(d)
         /\ IsDown(MakeNodeDown(d))
  <1>1. /\ IsDown(NodeNotResp(d)) => IsDown(d)
        /\ IsDown(NodeDidResp(d, returns)) => IsDown(d)
        /\ IsDown(DrainNode(d)) => IsDown(d)
        /\ IsDown(ResumeNode(d)) => IsDown(d)
        /\ IsDown(MakeNodeDown(d))
    BY Zenon DEF NodeRecord, NodeBase, NodeNotResp, NodeDidResp, DrainNode, ResumeNode, MakeNodeDown, IsDown
  <1>2. IsDown(ValidateNodeSpecs(d, returns)) => IsDown(d)
    BY DEF NodeRecord, NodeBase, ValidateNodeSpecs, SyncBitmaps, IsDown
  <1> QED
    BY Zenon, <1>1, <1>2

-----------------------------------------------------------------------------
(* The state of a node, its bits in idle_node_bitmap and                   *)
(* share_node_bitmap, and its counters.                                    *)

\* COMPLETING and ALLOCATED say what the counters say, an idle node runs
\* nothing, and a DOWN node is not COMPLETING.
AgreeOK(d) ==
  IF IsDown(d) THEN ~d.completing
  ELSE /\ d.completing <=> d.comp_job_cnt # 0
       /\ d.base = "ALLOCATED" <=> d.run_job_cnt # 0
       /\ d.idle => d.run_job_cnt = 0

\* The same, before RefreshIdle has looked at comp_job_cnt.
AlmostOK(d) ==
  IF IsDown(d) THEN ~d.completing
  ELSE /\ d.comp_job_cnt # 0 => d.completing
       /\ d.base = "ALLOCATED" <=> d.run_job_cnt # 0
       /\ d.idle => d.run_job_cnt = 0

\* A node becomes shareable only when one job leaves it, or if nothing runs there.
Fits(d, e) ==
  /\ AgreeOK(d) => AgreeOK(e)
  /\ ~IsDown(e) /\ e.share =>
       \/ ~IsDown(d) /\ d.share
       \/ e.run_job_cnt = Decr(d.run_job_cnt)
       \/ e.run_job_cnt = 0

\* A step that leaves share_node_bitmap alone.
Tame(d, e) == (AgreeOK(d) => AgreeOK(e)) /\ SameDown(d, e) /\ e.share = d.share

\* The counters and the decrement
LEMMA CountFacts ==
  ASSUME NEW d \in NodeRecord
  PROVE  /\ d.run_job_cnt + 1 # 0 /\ d.comp_job_cnt + 1 # 0
         /\ Decr(d.run_job_cnt) > 0 <=> Decr(d.run_job_cnt) # 0
         /\ d.run_job_cnt > 0 <=> d.run_job_cnt # 0
         /\ d.comp_job_cnt > 0 <=> d.comp_job_cnt # 0
         /\ Decr(d.comp_job_cnt) # 0 => d.comp_job_cnt # 0
         /\ Decr(d.run_job_cnt) # 0 => d.run_job_cnt # 0
         /\ d.run_job_cnt + d.comp_job_cnt = 0 <=> d.run_job_cnt = 0 /\ d.comp_job_cnt = 0
         /\ d.run_job_cnt + d.comp_job_cnt > 0 <=> ~(d.run_job_cnt = 0 /\ d.comp_job_cnt = 0)
  <1>1. d.run_job_cnt \in Nat /\ d.comp_job_cnt \in Nat
    BY Zenon DEF NodeRecord
  <1> QED
    BY SMTT(30), <1>1 DEF Decr

\* make_node_alloc(), and resume of a job
LEMMA FitsAlloc ==
  ASSUME NEW d \in NodeRecord, ~IsDown(d), NEW excl \in BOOLEAN, NEW own \in BOOLEAN, NEW user
  PROVE  /\ AgreeOK(d) => /\ AgreeOK(MakeNodeAlloc(d, excl, own, user))
                          /\ AgreeOK(ResumeJobNode(d, excl))
         /\ MakeNodeAlloc(d, excl, own, user).share => d.share /\ ~excl
  <1>1. LET e == MakeNodeAlloc(d, excl, own, user)
        IN /\ e.base = "ALLOCATED" /\ ~e.idle /\ e.completing = d.completing
           /\ e.share => d.share /\ ~excl
           /\ e.run_job_cnt = d.run_job_cnt + 1 /\ e.comp_job_cnt = d.comp_job_cnt
    BY Zenon DEF NodeRecord, MakeNodeAlloc
  <1>2. LET e == ResumeJobNode(d, excl)
        IN /\ e.base = "ALLOCATED" /\ ~e.idle /\ e.completing = d.completing
           /\ e.run_job_cnt = d.run_job_cnt + 1 /\ e.comp_job_cnt = d.comp_job_cnt
    BY Zenon DEF NodeRecord, ResumeJobNode
  <1>3. d.run_job_cnt + 1 # 0
    BY Zenon, CountFacts
  <1> QED
    BY Zenon, <1>1, <1>2, <1>3 DEF AgreeOK, IsDown

\* make_node_comp()
LEMMA FitsComp ==
  ASSUME NEW d \in NodeRecord, NEW excl \in BOOLEAN, NEW suspended \in BOOLEAN
  PROVE  Fits(d, MakeNodeComp(d, excl, suspended))
  <1> DEFINE run == IF suspended THEN d.run_job_cnt ELSE Decr(d.run_job_cnt)
             comp == IF IsDown(d) THEN d.comp_job_cnt ELSE d.comp_job_cnt + 1
             e == MakeNodeComp(d, excl, suspended)
  <1>1. run > 0 <=> run # 0
    BY Zenon, CountFacts
  <1>2. /\ e.run_job_cnt = run /\ e.comp_job_cnt = comp
        /\ e.completing <=> d.completing \/ ~IsDown(d)
        /\ e.idle => d.idle \/ run = 0
        /\ e.share => d.share \/ (excl /\ ~suspended)
        /\ IsDown(e) <=> IsDown(d)
        /\ ~IsDown(d) => (e.base = "ALLOCATED" <=> run > 0)
    BY Zenon DEF NodeRecord, NodeBase, MakeNodeComp, IsDown
  <1>3. ~IsDown(d) => comp # 0
    BY Zenon, CountFacts
  <1>4. d.run_job_cnt = 0 => run = 0
    BY Zenon, CountFacts
  <1>5. ~suspended => run = Decr(d.run_job_cnt)
    BY Zenon
  <1> HIDE DEF run, comp
  <1> QED
    BY Zenon, <1>1, <1>2, <1>3, <1>4, <1>5 DEF Fits, AgreeOK

\* suspend of a job
LEMMA FitsSuspend ==
  ASSUME NEW d \in NodeRecord, NEW excl \in BOOLEAN
  PROVE  AgreeOK(d) => AgreeOK(SuspendJobNode(d, excl))
  <1> DEFINE run == Decr(d.run_job_cnt)
             e == SuspendJobNode(d, excl)
  <1>1. (run > 0 <=> run # 0) /\ (d.run_job_cnt = 0 => run = 0)
    BY Zenon, CountFacts
  <1>2. /\ e.run_job_cnt = run /\ e.comp_job_cnt = d.comp_job_cnt
        /\ e.completing = d.completing
        /\ e.idle => d.idle \/ run = 0
        /\ IsDown(e) <=> IsDown(d)
        /\ ~IsDown(d) => (e.base = "ALLOCATED" <=> run > 0)
    BY Zenon DEF NodeRecord, NodeBase, SuspendJobNode, IsDown
  <1> HIDE DEF run
  <1> QED
    BY Zenon, <1>1, <1>2 DEF AgreeOK

\* The second half of make_node_idle()
LEMMA FitsRefresh ==
  ASSUME NEW d \in NodeRecord
  PROVE  /\ AlmostOK(d) => AgreeOK(RefreshIdle(d))
         /\ RefreshIdle(d).share = d.share
  <1> DEFINE quiet == d.comp_job_cnt = 0
             empty == d.run_job_cnt = 0 /\ quiet
             e == RefreshIdle(d)
  <1>1. /\ e.run_job_cnt = d.run_job_cnt /\ e.comp_job_cnt = d.comp_job_cnt /\ e.share = d.share
        /\ e.completing <=> d.completing /\ ~quiet
        /\ IsDown(e) <=> IsDown(d)
        /\ ~IsDown(d) => /\ e.base = "ALLOCATED" <=> IF d.drain THEN ~empty /\ d.base = "ALLOCATED"
                                                     ELSE d.run_job_cnt > 0
                         /\ e.idle => d.idle \/ d.run_job_cnt = 0
    BY ZenonT(30) DEF NodeRecord, NodeBase, RefreshIdle, IsDown
  <1>2. d.run_job_cnt > 0 <=> d.run_job_cnt # 0
    BY Zenon, CountFacts
  <1> QED
    BY Zenon, <1>1, <1>2 DEF AlmostOK, AgreeOK

\* The decrement of comp_job_cnt on a DOWN node, and the end of its failure
LEMMA FitsDown ==
  ASSUME NEW d \in NodeRecord, IsDown(d), NEW k
  PROVE  /\ Fits(d, [d EXCEPT !.comp_job_cnt = k])
         /\ Fits(d, SyncBitmaps(d, 0))
  <1>1. IsDown([d EXCEPT !.comp_job_cnt = k]) /\ [d EXCEPT !.comp_job_cnt = k].completing = d.completing
    BY Zenon DEF NodeRecord, IsDown
  <1>2. IsDown(SyncBitmaps(d, 0)) /\ SyncBitmaps(d, 0).completing = d.completing
    BY Zenon DEF NodeRecord, IsDown, SyncBitmaps
  <1> QED
    BY Zenon, <1>1, <1>2 DEF Fits, AgreeOK

\* drain, no response, and the failure of the node
LEMMA FitsFlags ==
  ASSUME NEW d \in NodeRecord
  PROVE  /\ Tame(d, d) /\ Tame(d, DrainNode(d)) /\ Tame(d, NodeNotResp(d))
         /\ Fits(d, MakeNodeDown(d))
  <1> DEFINE Same(e) == /\ e.base = d.base /\ e.completing = d.completing /\ e.idle = d.idle
                        /\ e.share = d.share
                        /\ e.run_job_cnt = d.run_job_cnt /\ e.comp_job_cnt = d.comp_job_cnt
  <1>1. Same(d) /\ Same(DrainNode(d)) /\ Same(NodeNotResp(d))
    BY Zenon DEF NodeRecord, DrainNode, NodeNotResp
  <1>2. \A e : Same(e) => Tame(d, e)
    BY Zenon DEF Tame, SameDown, AgreeOK, IsDown
  <1>3. IsDown(MakeNodeDown(d)) /\ ~MakeNodeDown(d).completing
    BY Zenon DEF NodeRecord, MakeNodeDown, IsDown
  <1> QED
    BY Zenon, <1>1, <1>2, <1>3 DEF Fits, AgreeOK

\* Such steps fit, alone and after a step that fits.
LEMMA TameFits ==
  ASSUME NEW d, NEW e
  PROVE  /\ Tame(d, e) => Fits(d, e)
         /\ \A f : Tame(d, e) /\ Tame(e, f) => Tame(d, f)
         /\ \A f : Fits(d, e) /\ Tame(e, f) /\ f.run_job_cnt = e.run_job_cnt => Fits(d, f)
  BY Zenon DEF Tame, Fits, SameDown

\* make_node_idle() of a job that has ended, or of any job on a DOWN node
LEMMA FitsIdle ==
  ASSUME NEW d \in NodeRecord, NEW fresh, NEW phase, NEW own \in BOOLEAN,
         phase \notin {"RUNNING", "SUSPENDED"} \/ IsDown(d)
  PROVE  Tame(d, MakeNodeIdle(d, fresh, phase, FALSE, own))
  <1> DEFINE c == IF fresh THEN LeavePhase(d, phase, FALSE) ELSE d
             more == fresh /\ phase \notin {"RUNNING", "SUSPENDED"} /\ c.comp_job_cnt > 0
             f == IF more THEN c ELSE RefreshIdle(c)
  <1>1. c \in NodeRecord
    BY LeavePhaseType, Zenon
  <1>2. /\ c.base = d.base /\ c.completing = d.completing /\ c.idle = d.idle /\ c.share = d.share
        /\ IsDown(d) \/ c.run_job_cnt = d.run_job_cnt
        /\ c.comp_job_cnt = d.comp_job_cnt \/ c.comp_job_cnt = Decr(d.comp_job_cnt)
    BY Zenon DEF NodeRecord, LeavePhase
  <1>3. c.comp_job_cnt # 0 => d.comp_job_cnt # 0
    BY Zenon, <1>2, CountFacts
  <1>4. c.comp_job_cnt > 0 <=> c.comp_job_cnt # 0
    BY Zenon, <1>1, CountFacts
  <1> HIDE DEF c
  <1>5. AgreeOK(d) => AlmostOK(c) /\ (more => AgreeOK(c))
    BY Zenon, <1>2, <1>3, <1>4 DEF AgreeOK, AlmostOK, IsDown
  <1>6. f \in NodeRecord /\ (AgreeOK(d) => AgreeOK(f)) /\ f.share = d.share
    BY Zenon, <1>1, <1>2, <1>5, RefreshIdleType, FitsRefresh
  <1>7. MakeNodeIdle(d, fresh, phase, FALSE, own) = OwnerFini(f, own)
    BY Zenon DEF MakeNodeIdle, c
  <1> HIDE DEF f
  <1>8. LET e == OwnerFini(f, own)
        IN /\ e.base = f.base /\ e.completing = f.completing /\ e.idle = f.idle /\ e.share = f.share
           /\ e.run_job_cnt = f.run_job_cnt /\ e.comp_job_cnt = f.comp_job_cnt
    BY Zenon, <1>6 DEF NodeRecord, OwnerFini
  <1> QED
    BY Zenon, <1>6, <1>7, <1>8, DownIdle DEF Tame, AgreeOK, IsDown

\* A node that answers, is resumed or registers.  If it is DOWN, nothing is left
\* there.
LEMMA FitsReturn ==
  ASSUME NEW d \in NodeRecord, IsDown(d) => d.run_job_cnt = 0 /\ d.comp_job_cnt = 0,
         AgreeOK(d), NEW returns \in BOOLEAN
  PROVE  /\ Fits(d, NodeDidResp(d, returns))
         /\ Fits(d, ResumeNode(d))
         /\ Fits(d, ValidateNodeSpecs(d, returns))
  <1>1. Fits(d, NodeDidResp(d, returns))
    <2> DEFINE e == NodeDidResp(d, returns)
    <2>1. /\ e.run_job_cnt = d.run_job_cnt /\ e.comp_job_cnt = d.comp_job_cnt
          /\ e.completing = d.completing
          /\ e.base = IF IsDown(d) /\ returns THEN "IDLE" ELSE d.base
          /\ e.idle => d.idle \/ (e.base = "IDLE" /\ ~d.completing)
          /\ e.share => d.share \/ (e.base = "IDLE" /\ ~d.completing)
      BY ZenonT(30) DEF NodeRecord, NodeBase, NodeDidResp, IsDown
    <2> QED
      BY ZenonT(30), <2>1 DEF Fits, AgreeOK, IsDown
  <1>2. Fits(d, ResumeNode(d))
    <2> DEFINE e == ResumeNode(d)
    <2>1. /\ e.run_job_cnt = d.run_job_cnt /\ e.comp_job_cnt = d.comp_job_cnt
          /\ e.completing = d.completing
          /\ e.base = IF IsDown(d) THEN "IDLE" ELSE d.base
          /\ e.idle => e.base = "IDLE"
          /\ e.share => d.share
      BY ZenonT(30) DEF NodeRecord, NodeBase, ResumeNode, IsDown
    <2> QED
      BY ZenonT(30), <2>1 DEF Fits, AgreeOK, IsDown
  <1>3. Fits(d, ValidateNodeSpecs(d, returns))
    <2> DEFINE jobs == d.run_job_cnt + d.comp_job_cnt
               e == ValidateNodeSpecs(d, returns)
    <2>1. /\ e.run_job_cnt = d.run_job_cnt /\ e.comp_job_cnt = d.comp_job_cnt
          /\ e.idle => d.idle \/ jobs = 0
          /\ e.share => d.share \/ jobs = 0
      BY ZenonT(30) DEF NodeRecord, NodeBase, ValidateNodeSpecs, SyncBitmaps, IsDown
    <2>2. AgreeOK(e)
      BY SMTT(30) DEF NodeRecord, NodeBase, ValidateNodeSpecs, SyncBitmaps, IsDown, AgreeOK
    <2>3. jobs = 0 => d.run_job_cnt = 0
      BY Zenon, CountFacts
    <2> HIDE DEF jobs
    <2> QED
      BY ZenonT(30), <2>1, <2>2, <2>3 DEF Fits, AgreeOK
  <1> QED
    BY Zenon, <1>1, <1>2, <1>3

-----------------------------------------------------------------------------
(* One job record.                                                         *)

\* The nodes whose epilog the job waits for.
CgSet(r) == IF r.node_bitmap_cg = NULL THEN {} ELSE r.node_bitmap_cg

\* A job that has ended; its node_bitmap_cg and node_cnt agree.
Waiting(r) == /\ r.state \notin Active
              /\ r.node_bitmap # NULL /\ r.node_bitmap_cg # NULL
              /\ r.node_bitmap_cg \subseteq r.node_bitmap
              /\ r.node_cnt = Cardinality(r.node_bitmap_cg)

\* The same, after cleanup_completing() has looked at it.
Settled(r) == IF AllQuiet(r)
              THEN /\ r.state \notin Active /\ ~Completing(r)
                   /\ r.node_bitmap_cg \in {NULL, {}}
              ELSE Waiting(r)

SameNodes(r, q) == /\ q.node_bitmap = r.node_bitmap
                   /\ q.node_bitmap_cg = r.node_bitmap_cg
                   /\ q.node_cnt = r.node_cnt
                   /\ q.epilog_running = r.epilog_running
                   /\ q.prolog_running = r.prolog_running

\* JOB_EXPEDITING is for jobs with EXPEDITED_REQUEUE.
ExpeditingOK(j, r) == Expediting(r) => j \in Expedited

-----------------------------------------------------------------------------
(* Sets of nodes and of jobs.                                              *)

\* What is used of cardinalities.  It holds because Jobs and Nodes are finite:
\* see SetsCount in JobNodeProofs.
Counting ==
  /\ Cardinality({}) = 0
  /\ \A n \in Nodes : Cardinality({n}) = 1
  /\ \A S \in SUBSET Nodes :
       /\ Cardinality(S) \in Nat /\ (Cardinality(S) = 0 <=> S = {})
       /\ \A T \in SUBSET S : Cardinality(S \ T) = Cardinality(S) - Cardinality(T)
  /\ \A P \in SUBSET Jobs :
       /\ Cardinality(P) \in Nat /\ (Cardinality(P) = 0 <=> P = {})
       /\ \A j \in P : Cardinality(P \ {j}) = Cardinality(P) - 1

\* The cardinality of a set of nodes is a natural number.
LEMMA NodeSets ==
  ASSUME Counting, NEW S \in SUBSET Nodes
  PROVE  Cardinality(S) \in Nat /\ (Cardinality(S) = 0 <=> S = {})
  BY Zenon DEF Counting

\* Taking away a subset subtracts its cardinality.
LEMMA NodeSetDifference ==
  ASSUME Counting, NEW S \in SUBSET Nodes, NEW T \in SUBSET S
  PROVE  Cardinality(S \ T) = Cardinality(S) - Cardinality(T)
  BY Zenon DEF Counting

\* The empty set of nodes has no elements to count.
LEMMA NodeSetEmpty ==
  ASSUME Counting
  PROVE  Cardinality({}) = 0
  BY Zenon DEF Counting

\* The truth values are Booleans.
LEMMA Booleans == TRUE \in BOOLEAN /\ FALSE \in BOOLEAN
  BY Zenon

\* NULL is not a set of nodes.
LEMMA NullBitmap == \A b \in Bitmaps : b # NULL <=> b \in SUBSET Nodes
  BY Zenon, NullAssumption DEF Bitmaps

-----------------------------------------------------------------------------
(* Operations on a job record.                                             *)

\* job_state_set()
LEMMA JobStateSetFacts ==
  ASSUME NEW r \in JobRecord, NEW state \in JobBase, NEW flags \in SUBSET JobFlags
  PROVE  /\ JobStateSet(r, state, flags) \in JobRecord
         /\ JobStateSet(r, state, flags).state = state
         /\ JobStateSet(r, state, flags).flags = flags
         /\ SameNodes(r, JobStateSet(r, state, flags))
  <1>1. JobStateSet(r, state, flags) \in JobRecord
    BY Zenon DEF JobRecord, JobStateSet
  <1> QED
    BY Zenon, <1>1 DEF JobRecord, JobStateSet, SameNodes

\* build_cg_bitmap()
LEMMA BuildCgBitmapFacts ==
  ASSUME NEW r \in JobRecord
  PROVE  LET q == BuildCgBitmap(r)
         IN /\ q \in JobRecord
            /\ q.node_bitmap = r.node_bitmap
            /\ q.node_bitmap_cg \in SUBSET Nodes /\ q.node_bitmap_cg # NULL
            /\ r.node_bitmap # NULL => q.node_bitmap_cg = r.node_bitmap
            /\ q.flags = IF q.node_bitmap_cg = {} THEN r.flags \ {"COMPLETING"} ELSE r.flags
            /\ q.state = r.state /\ q.node_cnt = r.node_cnt
            /\ q.epilog_running = r.epilog_running /\ q.prolog_running = r.prolog_running
  <1> DEFINE cg == IF r.node_bitmap = NULL THEN {} ELSE r.node_bitmap
             fl == IF cg = {} THEN r.flags \ {"COMPLETING"} ELSE r.flags
  <1>1. cg \in SUBSET Nodes /\ cg # NULL /\ cg \in Bitmaps
    BY Zenon, NullBitmap DEF JobRecord, Bitmaps
  <1>2. fl \in SUBSET JobFlags
    BY Zenon DEF JobRecord
  <1>3. BuildCgBitmap(r) = [r EXCEPT !.node_bitmap_cg = cg, !.flags = fl]
    BY Zenon DEF BuildCgBitmap
  <1>4. BuildCgBitmap(r) \in JobRecord
    <2> HIDE DEF cg, fl
    <2> QED BY <1>1, <1>2, <1>3, Zenon DEF JobRecord
  <1> QED
    BY <1>1, <1>3, <1>4, Zenon DEF JobRecord

\* job_hold_requeue(): only the state, JOB_EXPEDITING and the hold change.
LEMMA JobHoldRequeueFacts ==
  ASSUME NEW j \in Jobs, NEW r \in JobRecord, r.state \notin Active
  PROVE  LET q == JobHoldRequeue(j, r)
         IN /\ q \in JobRecord
            /\ q.state \in {r.state, "PENDING"}
            /\ r.state = "CANCELLED" => q.state = r.state
            /\ Completing(q) <=> Completing(r)
            /\ ExpeditingOK(j, r) => ExpeditingOK(j, q)
            /\ SameNodes(r, q)
  <1> DEFINE a == JobStateSet(r, "PENDING", r.flags \cup {"EXPEDITING"})
             b == JobStateSet(r, "PENDING", r.flags)
             hold == b.held \/ RequeueExit = "hold"
             c == [b EXCEPT !.held = hold]
  <1>1. /\ r.flags \cup {"EXPEDITING"} \in SUBSET JobFlags /\ r.flags \in SUBSET JobFlags
        /\ "PENDING" \in JobBase
    BY Zenon DEF JobRecord, JobFlags, JobBase
  <1>2. /\ a \in JobRecord /\ b \in JobRecord
        /\ a.state = "PENDING" /\ b.state = "PENDING"
        /\ a.flags = r.flags \cup {"EXPEDITING"} /\ b.flags = r.flags
    BY <1>1, JobStateSetFacts
  <1>3. hold \in BOOLEAN
    BY Zenon
  <1>4. c \in JobRecord
    <2> HIDE DEF b, hold
    <2> QED BY <1>2, <1>3, Zenon DEF JobRecord
  <1>5. \/ JobHoldRequeue(j, r) = r
        \/ r.state # "CANCELLED" /\ j \in Expedited /\ JobHoldRequeue(j, r) = a
        \/ r.state # "CANCELLED" /\ JobHoldRequeue(j, r) = c
    BY Zenon DEF JobHoldRequeue
  <1>6. CASE JobHoldRequeue(j, r) = r
    BY Zenon, <1>6 DEF SameNodes
  <1>7. CASE r.state # "CANCELLED" /\ j \in Expedited /\ JobHoldRequeue(j, r) = a
    BY <1>1, <1>2, <1>7, JobStateSetFacts DEF Completing, Expediting, ExpeditingOK
  <1>8. CASE r.state # "CANCELLED" /\ JobHoldRequeue(j, r) = c
    BY Zenon, <1>4, <1>8 DEF JobRecord, JobStateSet, Completing, Expediting, ExpeditingOK, SameNodes
  <1> QED
    BY Zenon, <1>5, <1>6, <1>7, <1>8

\* cleanup_completing()
LEMMA CleanupCompletingFacts ==
  ASSUME Counting, NEW j \in Jobs, NEW r \in JobRecord, Waiting(r)
  PROVE  LET q == CleanupCompleting(j, r)
         IN /\ q \in JobRecord /\ Settled(q) /\ SameNodes(r, q)
            /\ q.state \in {r.state, "PENDING"}
            /\ r.state = "CANCELLED" => q.state = r.state
            /\ Completing(q) <=> Completing(r) /\ ~AllQuiet(r)
            /\ ~AllQuiet(r) => q = r
            /\ ExpeditingOK(j, r) => ExpeditingOK(j, q)
  <1> DEFINE p == [r EXCEPT !.flags = @ \ {"COMPLETING"}]
  <1>1. CASE ~AllQuiet(r)
    BY Zenon, <1>1 DEF CleanupCompleting, Settled, SameNodes
  <1>2. CASE AllQuiet(r)
    <2>1. r.flags \ {"COMPLETING"} \in SUBSET JobFlags
      BY Zenon DEF JobRecord
    <2>2. p \in JobRecord
      BY <2>1, Zenon DEF JobRecord
    <2>3. /\ p.state = r.state /\ SameNodes(r, p) /\ ~Completing(p)
          /\ ExpeditingOK(j, r) => ExpeditingOK(j, p)
      BY Zenon DEF JobRecord, SameNodes, Completing, Expediting, ExpeditingOK
    <2>4. CleanupCompleting(j, r) = JobHoldRequeue(j, p)
      BY Zenon, <1>2 DEF CleanupCompleting
    <2>5. r.node_bitmap_cg = {}
      BY <1>2, NullBitmap, NodeSets, Zenon DEF Waiting, AllQuiet, JobRecord
    <2> HIDE DEF p
    <2>6. p.state \notin Active
      BY Zenon, <2>3 DEF Waiting
    <2>7. LET q == JobHoldRequeue(j, p)
          IN /\ q \in JobRecord /\ SameNodes(p, q) /\ q.state \in {p.state, "PENDING"}
             /\ p.state = "CANCELLED" => q.state = p.state
             /\ Completing(q) <=> Completing(p)
             /\ ExpeditingOK(j, p) => ExpeditingOK(j, q)
      BY <2>2, <2>6, JobHoldRequeueFacts, Zenon
    <2> QED
      BY Zenon, <1>2, <2>3, <2>4, <2>5, <2>6, <2>7 DEF Settled, SameNodes, AllQuiet, Active
  <1> QED
    BY Zenon, <1>1, <1>2

\* batch_requeue_fini(), on a job with nothing left to complete
LEMMA BatchRequeueFiniFacts ==
  ASSUME NEW j \in Jobs, NEW r \in JobRecord, r.state \notin Active,
         r.state = "PENDING" => Completing(r) \/ AllQuiet(r)
  PROVE  LET q == BatchRequeueFini(j, r)
         IN /\ q \in JobRecord /\ q.state = r.state
            /\ \/ q = r
               \/ /\ r.state = "PENDING" /\ AllQuiet(q) /\ ~Completing(q)
                  /\ q.node_bitmap_cg = NULL
            /\ Completing(q) <=> Completing(r)
            /\ Settled(r) => Settled(q)
            /\ ExpeditingOK(j, r) => ExpeditingOK(j, q)
            /\ j \in Batch /\ r.state = "PENDING" /\ AllQuiet(r) /\ ~Completing(r)
                 => AllQuiet(q) /\ q.node_bitmap_cg = NULL
  <1> DEFINE hold == Expediting(r) /\ ~r.epilog_failed
             flags == IF hold THEN r.flags \ {"EXPEDITING"} ELSE r.flags
             held == r.held \/ hold
             sluid == r.sluid + 1
             q == [r EXCEPT !.flags = flags, !.held = held, !.node_cnt = 0,
                            !.node_bitmap = NULL, !.node_bitmap_cg = NULL,
                            !.epilog_failed = FALSE, !.launched = FALSE, !.sluid = sluid]
  <1> DEFINE back == \/ Completing(r) \/ r.state # "PENDING" \/ j \notin Batch
                     \/ Expediting(r) /\ r.epilog_running
  <1>1. CASE back
    <2>1. BatchRequeueFini(j, r) = r
      BY Zenon, <1>1 DEF BatchRequeueFini
    <2>2. ~(j \in Batch /\ r.state = "PENDING" /\ AllQuiet(r) /\ ~Completing(r))
      BY Zenon, <1>1 DEF AllQuiet
    <2> QED
      BY Zenon, <2>1, <2>2
  <1>2. CASE ~back
    <2>1. BatchRequeueFini(j, r) = q /\ ~Completing(r) /\ r.state = "PENDING"
      BY <1>2, Zenon DEF BatchRequeueFini
    <2>2. /\ flags \in SUBSET JobFlags /\ sluid \in Nat \ {0} /\ NULL \in Bitmaps
          /\ "COMPLETING" \notin flags /\ (Expediting(r) \/ "EXPEDITING" \notin flags)
      BY <2>1 DEF JobRecord, Bitmaps, Completing, Expediting
    <2>3. held \in BOOLEAN /\ FALSE \in BOOLEAN /\ 0 \in Nat
      BY Zenon
    <2> HIDE DEF hold, flags, held, sluid
    <2>4. q \in JobRecord
      BY <2>2, <2>3, Zenon DEF JobRecord
    <2>5. /\ q.state = r.state /\ q.node_cnt = 0 /\ q.node_bitmap_cg = NULL
          /\ q.epilog_running = r.epilog_running /\ q.flags = flags
      BY Zenon DEF JobRecord
    <2> HIDE DEF q
    <2> QED
      BY Zenon, <2>1, <2>2, <2>4, <2>5 DEF Settled, AllQuiet, Completing, Expediting, ExpeditingOK
  <1> QED
    BY Zenon, <1>1, <1>2

\* _set_requeued_job_pending_completing(): whatever was left of the job's state
\* is COMPLETING exactly if something is left to complete.
LEMMA SetRequeuedFacts ==
  ASSUME NEW j \in Jobs, NEW r \in JobRecord, Settled(r)
  PROVE  LET q == SetRequeuedJobPendingCompleting(r)
         IN /\ q \in JobRecord /\ q.state = "PENDING" /\ SameNodes(r, q)
            /\ Completing(q) <=> ~AllQuiet(r)
            /\ Settled(q) /\ JobOK(q)
            /\ ExpeditingOK(j, r) => ExpeditingOK(j, q)
  <1> DEFINE flags == (r.flags \cap {"EXPEDITING"}) \cup
                      (IF AllQuiet(r) THEN {} ELSE {"COMPLETING"})
             q == JobStateSet(r, "PENDING", flags)
  <1>1. /\ flags \in SUBSET JobFlags /\ "PENDING" \in JobBase
        /\ "COMPLETING" \in flags <=> ~AllQuiet(r)
        /\ "EXPEDITING" \in flags <=> "EXPEDITING" \in r.flags
    BY Zenon DEF JobRecord, JobFlags, JobBase
  <1>2. SetRequeuedJobPendingCompleting(r) = q
    BY Zenon DEF SetRequeuedJobPendingCompleting
  <1> HIDE DEF flags
  <1>3. q \in JobRecord /\ q.state = "PENDING" /\ q.flags = flags /\ SameNodes(r, q)
    BY <1>1, JobStateSetFacts
  <1> HIDE DEF q
  <1>4. AllQuiet(q) <=> AllQuiet(r)
    BY Zenon, <1>3 DEF AllQuiet, SameNodes
  <1>5. Completing(q) <=> ~AllQuiet(r)
    BY Zenon, <1>1, <1>3 DEF Completing
  <1>6. Settled(q)
    BY Zenon, <1>3, <1>4, <1>5 DEF Settled, Waiting, SameNodes, Active
  <1>7. JobOK(q)
    BY Zenon, <1>3, <1>4, <1>5, <1>6 DEF Settled, Waiting, JobOK, AllQuiet, Active
  <1>8. ExpeditingOK(j, r) => ExpeditingOK(j, q)
    BY Zenon, <1>1, <1>3 DEF ExpeditingOK, Expediting
  <1> QED
    BY Zenon, <1>2, <1>3, <1>5, <1>6, <1>7, <1>8

\* deallocate_nodes() on the job
LEMMA DeallocateJobFacts ==
  ASSUME Counting, NEW j \in Jobs, NEW r \in JobRecord, Waiting(r), NEW nodes,
         Completing(r) \/ r.state # "PENDING"
  PROVE  LET t == DeallocateJob(j, r, nodes)
         IN /\ t \in JobRecord /\ Settled(t)
            /\ t.state \in {r.state, "PENDING"}
            /\ r.state = "CANCELLED" => t.state = r.state
            /\ Completing(t) <=> Completing(r) /\ ~AllQuiet(t)
            /\ CgSet(t) = IF r.prolog_running THEN {} ELSE r.node_bitmap_cg \ DownNodes(nodes)
            /\ ExpeditingOK(j, r) => ExpeditingOK(j, t)
  <1> DEFINE lost == r.node_bitmap_cg \cap DownNodes(nodes)
             left == r.node_bitmap_cg \ lost
             cnt == r.node_cnt - Cardinality(lost)
             q == [r EXCEPT !.epilog_running = EpilogSlurmctld,
                            !.node_bitmap_cg = left, !.node_cnt = cnt]
             s == CleanupCompleting(j, q)
             u == [s EXCEPT !.node_bitmap_cg = {}, !.node_cnt = 0]
             t == CleanupCompleting(j, u)
  <1>1. r.node_bitmap_cg \in SUBSET Nodes
    BY Zenon, NullBitmap DEF Waiting, JobRecord
  <1>2. /\ left \in SUBSET Nodes /\ cnt = Cardinality(left) /\ cnt \in Nat
        /\ left \in Bitmaps /\ left # NULL /\ {} \in Bitmaps /\ {} # NULL
        /\ left = r.node_bitmap_cg \ DownNodes(nodes)
    <2>1. lost \in SUBSET r.node_bitmap_cg /\ left \in SUBSET Nodes
      BY Zenon, <1>1
    <2>2. cnt = Cardinality(left)
      BY Zenon, <1>1, <2>1, NodeSetDifference DEF Waiting
    <2>3. cnt \in Nat
      BY Zenon, <2>1, <2>2, NodeSets
    <2> QED
      BY Zenon, <2>1, <2>2, <2>3, NullAssumption DEF Bitmaps
  <1>3. EpilogSlurmctld \in BOOLEAN
    BY Zenon, ParamAssumption
  <1>4. DeallocateJob(j, r, nodes) =
          IF ~r.prolog_running \/ s.node_bitmap_cg = {} THEN s
          ELSE IF Completing(t) THEN t ELSE BatchRequeueFini(j, t)
    BY Zenon DEF DeallocateJob
  <1> HIDE DEF left, cnt
  <1>5. q \in JobRecord
    BY <1>2, <1>3, Zenon DEF JobRecord
  <1>6. /\ q.state = r.state /\ q.flags = r.flags /\ q.node_bitmap = r.node_bitmap
        /\ q.node_bitmap_cg = left /\ q.node_cnt = cnt /\ q.prolog_running = r.prolog_running
    BY Zenon DEF JobRecord
  <1> HIDE DEF q
  <1>7. Waiting(q)
    BY Zenon, <1>2, <1>6 DEF Waiting
  <1>8. /\ s \in JobRecord /\ Settled(s) /\ SameNodes(q, s)
        /\ s.state \in {q.state, "PENDING"}
        /\ q.state = "CANCELLED" => s.state = q.state
        /\ Completing(s) <=> Completing(q) /\ ~AllQuiet(q)
        /\ ~AllQuiet(q) => s = q
        /\ ExpeditingOK(j, q) => ExpeditingOK(j, s)
    BY <1>5, <1>7, CleanupCompletingFacts, Zenon
  <1> HIDE DEF s
  <1>9. CASE ~r.prolog_running
    BY Zenon, <1>2, <1>4, <1>6, <1>8, <1>9
       DEF CgSet, SameNodes, AllQuiet, Completing, Expediting, ExpeditingOK
  <1>10. CASE r.prolog_running /\ s.node_bitmap_cg = {}
    BY Zenon, <1>2, <1>4, <1>6, <1>8, <1>10
       DEF CgSet, SameNodes, AllQuiet, Completing, Expediting, ExpeditingOK
  <1>11. CASE r.prolog_running /\ s.node_bitmap_cg # {}
    <2>1. ~AllQuiet(q)
      BY Zenon, <1>2, <1>6, <1>8, <1>11, NodeSets DEF AllQuiet, SameNodes
    <2>2. s = q
      BY Zenon, <1>8, <2>1
    <2>3. u \in JobRecord
      BY <1>2, <1>8, Zenon DEF JobRecord
    <2>4. /\ u.state = r.state /\ u.flags = r.flags /\ u.node_bitmap = r.node_bitmap
          /\ u.node_bitmap_cg = {} /\ u.node_cnt = 0
      BY Zenon, <1>5, <1>6, <2>2 DEF JobRecord
    <2> HIDE DEF u
    <2>5. Waiting(u)
      BY Zenon, <1>2, <2>4, NodeSetEmpty DEF Waiting
    <2>6. /\ t \in JobRecord /\ Settled(t) /\ SameNodes(u, t)
          /\ t.state \in {u.state, "PENDING"}
          /\ u.state = "CANCELLED" => t.state = u.state
          /\ Completing(t) <=> Completing(u) /\ ~AllQuiet(u)
          /\ ~AllQuiet(u) => t = u
          /\ ExpeditingOK(j, u) => ExpeditingOK(j, t)
      BY <2>3, <2>5, CleanupCompletingFacts, Zenon
    <2> HIDE DEF t
    <2>7. AllQuiet(t) <=> AllQuiet(u)
      BY Zenon, <2>6 DEF AllQuiet, SameNodes
    <2>8. CASE Completing(t)
      BY Zenon, <1>2, <1>4, <1>11, <2>4, <2>6, <2>7, <2>8
         DEF CgSet, SameNodes, Completing, Expediting, ExpeditingOK
    <2>9. CASE ~Completing(t)
      <3>1. t.state \notin Active /\ (t.state = "PENDING" => Completing(t) \/ AllQuiet(t))
        BY Zenon, <2>4, <2>6, <2>7, <2>9 DEF Settled, Waiting, Completing
      <3>2. LET b == BatchRequeueFini(j, t)
            IN /\ b \in JobRecord /\ b.state = t.state
               /\ \/ b = t
                  \/ /\ t.state = "PENDING" /\ AllQuiet(b) /\ ~Completing(b)
                     /\ b.node_bitmap_cg = NULL
               /\ Completing(b) <=> Completing(t)
               /\ Settled(t) => Settled(b)
               /\ ExpeditingOK(j, t) => ExpeditingOK(j, b)
        BY <2>6, <3>1, BatchRequeueFiniFacts, Zenon
      <3> QED
        BY Zenon, <1>2, <1>4, <1>11, <2>4, <2>6, <2>7, <2>9, <3>2
           DEF CgSet, SameNodes, Completing, Expediting, ExpeditingOK
    <2> QED
      BY Zenon, <2>8, <2>9
  <1> QED
    BY Zenon, <1>9, <1>10, <1>11

\* The job record from which every ending starts.
LEMMA EndingFacts ==
  ASSUME NEW j \in Jobs, NEW r \in JobRecord, JobOK(r), r.state \in Active,
         NEW state \in JobBase \ Active, NEW code \in ExitCodes
  PROVE  LET q == Ending(r, state, code)
         IN /\ q \in JobRecord /\ Waiting(q)
            /\ q.state = state /\ q.flags = {"COMPLETING"}
            /\ q.node_bitmap = r.node_bitmap /\ q.node_bitmap_cg = r.node_bitmap
            /\ q.prolog_running = r.prolog_running
  <1> DEFINE a == JobStateSet(r, state, {"COMPLETING"})
             b == [a EXCEPT !.exit_code = code]
  <1>1. /\ a \in JobRecord /\ a.state = state /\ a.flags = {"COMPLETING"}
        /\ SameNodes(r, a)
    BY JobStateSetFacts DEF JobFlags
  <1> HIDE DEF a
  <1>2. b \in JobRecord
    BY <1>1, Zenon DEF JobRecord
  <1>3. b.state = state /\ b.flags = {"COMPLETING"} /\ SameNodes(r, b)
    BY Zenon, <1>1 DEF JobRecord, SameNodes
  <1>4. Ending(r, state, code) = BuildCgBitmap(b)
    BY Zenon DEF Ending, a
  <1> HIDE DEF b
  <1>5. LET q == BuildCgBitmap(b)
        IN /\ q \in JobRecord
           /\ q.node_bitmap = b.node_bitmap
           /\ q.node_bitmap_cg # NULL
           /\ b.node_bitmap # NULL => q.node_bitmap_cg = b.node_bitmap
           /\ q.flags = IF q.node_bitmap_cg = {} THEN b.flags \ {"COMPLETING"} ELSE b.flags
           /\ q.state = b.state /\ q.node_cnt = b.node_cnt
           /\ q.prolog_running = b.prolog_running
    BY <1>2, BuildCgBitmapFacts, Zenon
  <1> QED
    BY Zenon, <1>3, <1>4, <1>5 DEF JobOK, Waiting, SameNodes

\* A settled job that carries COMPLETING while it waits is well formed.
LEMMA SettledOK ==
  ASSUME NEW r \in JobRecord, Settled(r), Completing(r) <=> ~AllQuiet(r)
  PROVE  JobOK(r) /\ r.state \notin Active
  BY Zenon DEF Settled, JobOK, Waiting, AllQuiet

\* The nodes whose epilog a job that ends now will wait for.
EndCg(r, nodes) == IF r.prolog_running THEN {} ELSE r.node_bitmap \ DownNodes(nodes)

\* Every ending leaves a well formed job, which waits for the nodes in service.
LEMMA EndJobFacts ==
  ASSUME Counting, NEW j \in Jobs, NEW r \in JobRecord, JobOK(r), r.state \in Active,
         NEW state \in JobBase \ Active, NEW code \in ExitCodes, NEW nodes
  PROVE  LET t == EndJob(j, r, state, code, nodes)
         IN /\ t \in JobRecord /\ Settled(t) /\ JobOK(t) /\ ExpeditingOK(j, t)
            /\ t.state \in {state, "PENDING"}
            /\ state = "CANCELLED" => t.state = state
            /\ Completing(t) <=> ~AllQuiet(t)
            /\ CgSet(t) = EndCg(r, nodes)
  <1> DEFINE q == Ending(r, state, code)
             t == DeallocateJob(j, q, nodes)
  <1>1. /\ q \in JobRecord /\ Waiting(q)
        /\ q.state = state /\ q.flags = {"COMPLETING"}
        /\ q.node_bitmap_cg = r.node_bitmap
        /\ q.prolog_running = r.prolog_running
    BY EndingFacts
  <1> HIDE DEF q
  <1>2. Completing(q) /\ ExpeditingOK(j, q)
    BY Zenon, <1>1 DEF Completing, ExpeditingOK, Expediting
  <1>3. /\ t \in JobRecord /\ Settled(t)
        /\ t.state \in {q.state, "PENDING"}
        /\ q.state = "CANCELLED" => t.state = q.state
        /\ Completing(t) <=> Completing(q) /\ ~AllQuiet(t)
        /\ CgSet(t) = IF q.prolog_running THEN {} ELSE q.node_bitmap_cg \ DownNodes(nodes)
        /\ ExpeditingOK(j, q) => ExpeditingOK(j, t)
    BY <1>1, <1>2, DeallocateJobFacts, Zenon
  <1>4. EndJob(j, r, state, code, nodes) = t
    BY Zenon DEF EndJob, q
  <1> HIDE DEF t
  <1>5. JobOK(t)
    BY Zenon, <1>2, <1>3, SettledOK
  <1> QED
    BY Zenon, <1>1, <1>2, <1>3, <1>4, <1>5 DEF EndCg

\* The part of it that most callers need.
LEMMA EndJobEnds ==
  ASSUME Counting, NEW j \in Jobs, NEW r \in JobRecord, JobOK(r), r.state \in Active,
         NEW state \in JobBase \ Active, NEW code \in ExitCodes, NEW nodes
  PROVE  LET t == EndJob(j, r, state, code, nodes)
         IN /\ t \in JobRecord /\ JobOK(t) /\ ExpeditingOK(j, t) /\ t.state \notin Active
            /\ CgSet(t) = EndCg(r, nodes)
  <1> DEFINE t == EndJob(j, r, state, code, nodes)
  <1>1. /\ t \in JobRecord /\ JobOK(t) /\ ExpeditingOK(j, t)
        /\ t.state \in {state, "PENDING"}
        /\ CgSet(t) = EndCg(r, nodes)
    BY SMTT(30), EndJobFacts
  <1>2. "PENDING" \notin Active
    BY Zenon DEF Active
  <1> QED
    BY <1>1, <1>2, Zenon

-----------------------------------------------------------------------------
(* How a step of job j moves the counters of a node.                       *)

Bit(p) == IF p THEN 1 ELSE 0
RunsOn(r, n)      == r.state = "RUNNING" /\ OnNode(r, n)
SuspendedAt(r, n) == r.state = "SUSPENDED" /\ OnNode(r, n)

\* The node counts the job at least once.
Counts(r, d, n) == /\ RunsOn(r, n) => d.run_job_cnt > 0
                   /\ SuspendedAt(r, n) => d.sus_job_cnt > 0
                   /\ Expedited = {} => (n \in CgSet(r) => d.comp_job_cnt > 0)

\* The counters of node n follow job record r as it becomes q.
Moves(r, q, d, e, n) ==
  /\ e.run_job_cnt + Bit(RunsOn(r, n)) = d.run_job_cnt + Bit(RunsOn(q, n))
  /\ e.sus_job_cnt + Bit(SuspendedAt(r, n)) = d.sus_job_cnt + Bit(SuspendedAt(q, n))
  /\ Expedited = {} =>
       e.comp_job_cnt + Bit(n \in CgSet(r)) = d.comp_job_cnt + Bit(n \in CgSet(q))

\* The counters are natural numbers.
LEMMA CounterType ==
  ASSUME NEW d \in NodeRecord
  PROVE  d.run_job_cnt \in Nat /\ d.sus_job_cnt \in Nat /\ d.comp_job_cnt \in Nat
  BY Zenon DEF NodeRecord

\* deallocate_nodes() on the nodes
LEMMA EndNodesFacts ==
  ASSUME NEW j \in Jobs, NEW r \in JobRecord, JobOK(r), r.state \in Active,
         NEW state \in JobBase \ Active, NEW nodes \in [Nodes -> NodeRecord],
         NEW q \in JobRecord, q.state \notin Active,
         CgSet(q) = EndCg(r, nodes)
  PROVE  LET ns == EndNodes(j, r, state, nodes)
         IN /\ ns \in [Nodes -> NodeRecord]
            /\ \A n \in Nodes : Healthy(nodes[n]) => Healthy(ns[n])
            /\ \A n \in Nodes : Counts(r, nodes[n], n) => Moves(r, q, nodes[n], ns[n], n)
  <1> DEFINE p == Ending(r, state, r.exit_code)
             sus == r.state = "SUSPENDED"
             excl == j \in Exclusive
             own == j \in OwnerExclusive
             comp(n) == MakeNodeComp(nodes[n], excl, sus)
             idle(n) == MakeNodeIdle(comp(n), TRUE, p.state, FALSE, own)
             ns == EndNodes(j, r, state, nodes)
  <1>1. /\ p.state = state /\ p.node_bitmap_cg = r.node_bitmap
        /\ p.prolog_running = r.prolog_running
    <2>1. r.exit_code \in ExitCodes
      BY Zenon DEF JobRecord
    <2> QED
      BY <2>1, EndingFacts
  <1> HIDE DEF p
  <1>2. /\ r.node_bitmap \in SUBSET Nodes /\ r.node_bitmap # NULL
        /\ r.node_bitmap_cg \in {NULL, {}} /\ CgSet(r) = {}
    BY Zenon, NullBitmap DEF JobOK, JobRecord, CgSet
  <1>3. ns = [n \in Nodes |-> IF n \notin r.node_bitmap THEN nodes[n]
                              ELSE IF r.prolog_running /\ ~IsDown(nodes[n])
                              THEN idle(n) ELSE comp(n)]
    BY Zenon, <1>1 DEF EndNodes, DeallocateNodes, p
  <1>4. sus \in BOOLEAN /\ excl \in BOOLEAN /\ own \in BOOLEAN
    <2>1. sus \in BOOLEAN
      BY Zenon
    <2>2. excl \in BOOLEAN /\ own \in BOOLEAN
      OBVIOUS
    <2> QED
      BY Zenon, <2>1, <2>2
  <1>5. p.state \notin {"RUNNING", "SUSPENDED"}
    BY Zenon, <1>1 DEF Active
  <1> HIDE DEF ns, sus, excl, own
  <1>6. SUFFICES ASSUME NEW n \in Nodes
                 PROVE  /\ ns[n] \in NodeRecord
                        /\ Healthy(nodes[n]) => Healthy(ns[n])
                        /\ Counts(r, nodes[n], n) => Moves(r, q, nodes[n], ns[n], n)
    <2>1. ns = [n \in Nodes |-> ns[n]]
      BY Zenon, <1>3
    <2> QED
      BY Zenon, <1>6, <2>1 DEF ns
  <1>7. nodes[n] \in NodeRecord
    BY Zenon
  <1>8. /\ comp(n) \in NodeRecord
        /\ Healthy(nodes[n]) => Healthy(comp(n))
    BY <1>4, <1>7, MakeNodeCompType, HealthyKept, Zenon
  <1>9. /\ comp(n).run_job_cnt = IF sus THEN nodes[n].run_job_cnt ELSE Decr(nodes[n].run_job_cnt)
        /\ comp(n).sus_job_cnt = IF sus THEN Decr(nodes[n].sus_job_cnt) ELSE nodes[n].sus_job_cnt
        /\ comp(n).comp_job_cnt = IF IsDown(nodes[n]) THEN nodes[n].comp_job_cnt
                                  ELSE nodes[n].comp_job_cnt + 1
    BY Zenon, <1>4, <1>7, CompCounts
  <1> HIDE DEF comp
  <1>10. /\ idle(n) \in NodeRecord
         /\ Healthy(nodes[n]) => Healthy(idle(n))
    BY <1>4, <1>8, MakeNodeIdleType, HealthyIdle, Zenon
  <1>11. /\ idle(n).run_job_cnt = comp(n).run_job_cnt
         /\ idle(n).sus_job_cnt = comp(n).sus_job_cnt
         /\ idle(n).comp_job_cnt = Decr(comp(n).comp_job_cnt)
    BY <1>4, <1>5, <1>8, IdleCountsEnded, Zenon
  <1> HIDE DEF idle
  <1>12. ns[n] = IF n \notin r.node_bitmap THEN nodes[n]
                 ELSE IF r.prolog_running /\ ~IsDown(nodes[n]) THEN idle(n) ELSE comp(n)
    BY Zenon, <1>3
  <1>13. /\ ns[n] \in NodeRecord
         /\ Healthy(nodes[n]) => Healthy(ns[n])
    BY Zenon, <1>7, <1>8, <1>10, <1>12
  <1>14. /\ RunsOn(r, n) <=> ~sus /\ n \in r.node_bitmap
         /\ SuspendedAt(r, n) <=> sus /\ n \in r.node_bitmap
         /\ ~RunsOn(q, n) /\ ~SuspendedAt(q, n)
         /\ n \in CgSet(q) <=> n \in r.node_bitmap /\ ~r.prolog_running /\ ~IsDown(nodes[n])
         /\ n \notin CgSet(r)
    BY Zenon, <1>2 DEF RunsOn, SuspendedAt, OnNode, sus, Active, DownNodes, EndCg
  <1>15. ASSUME Counts(r, nodes[n], n) PROVE Moves(r, q, nodes[n], ns[n], n)
    BY SMTT(30), <1>7, <1>9, <1>11, <1>12, <1>14, <1>15, CounterType DEF Moves, Counts, Decr, Bit
  <1> QED
    BY Zenon, <1>13, <1>15

-----------------------------------------------------------------------------
(* One lemma per kind of step on a job: the record it leaves is well       *)
(* formed, and the nodes follow.                                           *)

StepOK(j, r, q, nodes, ns) ==
  /\ q \in JobRecord /\ JobOK(q) /\ ExpeditingOK(j, q)
  /\ ns \in [Nodes -> NodeRecord]
  /\ \A n \in Nodes : Healthy(nodes[n]) => Healthy(ns[n])
  /\ \A n \in Nodes : Counts(r, nodes[n], n) => Moves(r, q, nodes[n], ns[n], n)

SameJob(r, q) == q.state = r.state /\ q.flags = r.flags /\ SameNodes(r, q)

\* What the lemmas say of a record they also say of one that differs elsewhere.
LEMMA SameJobFacts ==
  ASSUME NEW j, NEW r, NEW q, SameJob(r, q)
  PROVE  /\ JobOK(q) <=> JobOK(r)
         /\ Settled(q) <=> Settled(r)
         /\ AllQuiet(q) <=> AllQuiet(r)
         /\ Completing(q) <=> Completing(r)
         /\ CgSet(q) = CgSet(r)
         /\ ExpeditingOK(j, q) <=> ExpeditingOK(j, r)
  BY Zenon DEF SameJob, SameNodes, JobOK, Settled, Waiting, AllQuiet, Completing, CgSet,
         ExpeditingOK, Expediting

\* The record of a job that does not use the nodes, or still uses the same.
LEMMA StepJobOnly ==
  ASSUME NEW j \in Jobs, NEW r, NEW q \in JobRecord, JobOK(q), ExpeditingOK(j, q),
         NEW nodes \in [Nodes -> NodeRecord],
         \/ r.state \notin Active /\ q.state \notin Active
         \/ r.state = q.state /\ r.node_bitmap = q.node_bitmap,
         CgSet(q) = CgSet(r)
  PROVE  StepOK(j, r, q, nodes, nodes)
  <1>1. \A n \in Nodes : RunsOn(q, n) = RunsOn(r, n) /\ SuspendedAt(q, n) = SuspendedAt(r, n)
    BY Zenon DEF RunsOn, SuspendedAt, OnNode, Active
  <1> QED
    BY Zenon, <1>1 DEF StepOK, Moves

\* The job ends.
LEMMA StepEnds ==
  ASSUME NEW j \in Jobs, NEW r \in JobRecord, JobOK(r), r.state \in Active,
         NEW state \in JobBase \ Active, NEW nodes \in [Nodes -> NodeRecord],
         NEW q \in JobRecord, q.state \notin Active, JobOK(q), ExpeditingOK(j, q),
         CgSet(q) = EndCg(r, nodes)
  PROVE  StepOK(j, r, q, nodes, EndNodes(j, r, state, nodes))
  BY EndNodesFacts, Zenon DEF StepOK

\* The final states, and PENDING, are states of an ended job.
LEMMA EndStates ==
  /\ Finished \cup {"PENDING"} \subseteq JobBase \ Active
  /\ \A s \in JobBase : s \in Finished \/ s = "PENDING" \/ s \in Active
  BY Zenon DEF Finished, JobBase, Active

\* job_signal(SIGKILL)
LEMMA StepCancel ==
  ASSUME Counting, NEW j \in Jobs, NEW r \in JobRecord, JobOK(r), ExpeditingOK(j, r),
         NEW nodes \in [Nodes -> NodeRecord]
  PROVE  StepOK(j, r, CancelJob(j, r, nodes), nodes, ActiveNodes(j, r, "CANCELLED", nodes))
  <1> DEFINE q == CancelJob(j, r, nodes)
  <1>1. r.state \in Finished \/ r.state = "PENDING" \/ r.state \in Active
    BY Zenon, EndStates DEF JobRecord
  <1>2. CASE r.state \in Finished
    <2>1. q = r /\ ActiveNodes(j, r, "CANCELLED", nodes) = nodes
      BY Zenon, <1>2 DEF CancelJob, IsFinished, ActiveNodes, Finished, Active
    <2> QED
      BY Zenon, <2>1, StepJobOnly
  <1>3. CASE r.state = "PENDING"
    <2> DEFINE flags == r.flags \cap {"COMPLETING"}
    <2>1. q = JobStateSet(r, "CANCELLED", flags) /\ ActiveNodes(j, r, "CANCELLED", nodes) = nodes
      BY Zenon, <1>3 DEF CancelJob, IsFinished, ActiveNodes, Finished, Active
    <2>2. flags \in SUBSET JobFlags /\ "CANCELLED" \in JobBase
      BY Zenon DEF JobRecord, JobBase, Finished
    <2>3. q \in JobRecord /\ q.state = "CANCELLED" /\ q.flags = flags /\ SameNodes(r, q)
      BY SMTT(30), <2>1, <2>2, JobStateSetFacts
    <2>4. JobOK(q) /\ ExpeditingOK(j, q) /\ CgSet(q) = CgSet(r)
      BY Zenon, <1>3, <2>3 DEF JobOK, Active, Completing, SameNodes, ExpeditingOK, Expediting, CgSet
    <2>5. r.state \notin Active /\ q.state \notin Active
      BY Zenon, <1>3, <2>3 DEF Active
    <2> QED
      BY SMTT(30), <2>1, <2>3, <2>4, <2>5, StepJobOnly
  <1>4. CASE r.state \in Active
    <2>1. /\ q = EndJob(j, r, "CANCELLED", r.exit_code, nodes)
          /\ ActiveNodes(j, r, "CANCELLED", nodes) = EndNodes(j, r, "CANCELLED", nodes)
      BY Zenon, <1>4 DEF CancelJob, IsFinished, ActiveNodes, Finished, Active
    <2>2. "CANCELLED" \in JobBase \ Active /\ r.exit_code \in ExitCodes
      BY Zenon DEF JobRecord, JobBase, Active, Finished
    <2>3. /\ q \in JobRecord /\ JobOK(q) /\ ExpeditingOK(j, q) /\ q.state \notin Active
          /\ CgSet(q) = EndCg(r, nodes)
      BY SMTT(30), <1>4, <2>1, <2>2, EndJobEnds
    <2> QED
      BY <1>4, <2>1, <2>2, <2>3, StepEnds, Zenon
  <1> QED
    BY Zenon, <1>1, <1>2, <1>3, <1>4

\* Counters of launch failures and holds do not matter here.
LEMMA RequeueHoldFacts ==
  ASSUME NEW r \in JobRecord, NEW kind
  PROVE  /\ HandleRequeueLimit([r EXCEPT !.batch_flag = @ + 1]) \in JobRecord
         /\ SameJob(r, HandleRequeueLimit([r EXCEPT !.batch_flag = @ + 1]))
         /\ RequeueHold(r, kind) \in JobRecord
         /\ SameJob(r, RequeueHold(r, kind))
  <1> DEFINE cnt == r.batch_flag + 1
             b == [r EXCEPT !.batch_flag = cnt]
             h == HandleRequeueLimit(b)
  <1>1. cnt \in Nat /\ 1 \in Nat
    BY DEF JobRecord
  <1> HIDE DEF cnt
  <1>2. b \in JobRecord
    BY <1>1, Zenon DEF JobRecord
  <1>3. SameJob(r, b)
    BY Zenon DEF JobRecord, SameJob, SameNodes
  <1> HIDE DEF b
  <1>4. [b EXCEPT !.batch_flag = 1, !.held = TRUE] \in JobRecord
    BY <1>1, <1>2, Booleans, Zenon DEF JobRecord
  <1>5. h \in JobRecord
    BY Zenon, <1>2, <1>4 DEF HandleRequeueLimit
  <1>6. SameJob(r, h)
    BY Zenon, <1>2, <1>3 DEF HandleRequeueLimit, JobRecord, SameJob, SameNodes
  <1> HIDE DEF h
  <1>7. [r EXCEPT !.held = TRUE] \in JobRecord /\ [h EXCEPT !.held = TRUE] \in JobRecord
    BY <1>5, Booleans, Zenon DEF JobRecord
  <1>8. SameJob(r, [r EXCEPT !.held = TRUE]) /\ SameJob(r, [h EXCEPT !.held = TRUE]) /\ SameJob(r, r)
    BY Zenon, <1>5, <1>6 DEF JobRecord, SameJob, SameNodes
  <1>9. h = HandleRequeueLimit([r EXCEPT !.batch_flag = @ + 1])
    BY Zenon DEF h, b, cnt
  <1>10. RequeueHold(r, kind) \in {r, [r EXCEPT !.held = TRUE], [h EXCEPT !.held = TRUE]}
    BY Zenon, <1>9 DEF RequeueHold
  <1> QED
    BY <1>5, <1>6, <1>7, <1>8, <1>9, <1>10, Zenon

\* _job_complete(requeue = false)
LEMMA StepComplete ==
  ASSUME Counting, NEW j \in Jobs, NEW r \in JobRecord, JobOK(r), ExpeditingOK(j, r),
         NEW code \in ExitCodes, NEW nodes \in [Nodes -> NodeRecord]
  PROVE  StepOK(j, r, CompleteJob(j, r, code, nodes), nodes,
                ActiveNodes(j, r, FinalState(code), nodes))
  <1> DEFINE q == CompleteJob(j, r, code, nodes)
             ns == ActiveNodes(j, r, FinalState(code), nodes)
  <1>1. r.state \in Finished \/ r.state = "PENDING" \/ r.state \in Active
    BY Zenon, EndStates DEF JobRecord
  <1>2. CASE r.state \in Finished
    <2> DEFINE c == IF r.exit_code = "zero" THEN code ELSE r.exit_code
    <2>1. q = [r EXCEPT !.exit_code = c] /\ ns = nodes
      BY Zenon, <1>2 DEF CompleteJob, IsFinished, ActiveNodes, Finished, Active
    <2>2. c \in ExitCodes
      BY Zenon DEF JobRecord
    <2> HIDE DEF c
    <2>3. q \in JobRecord
      BY <2>1, <2>2, Zenon DEF JobRecord
    <2>4. SameJob(r, q)
      BY Zenon, <2>1 DEF JobRecord, SameJob, SameNodes
    <2>5. JobOK(q) /\ ExpeditingOK(j, q) /\ CgSet(q) = CgSet(r) /\ r.state = q.state
          /\ r.node_bitmap = q.node_bitmap
      BY Zenon, <2>4, SameJobFacts DEF SameJob, SameNodes
    <2> QED
      BY <2>1, <2>3, <2>5, StepJobOnly, Zenon
  <1>3. CASE r.state = "PENDING"
    <2>1. ns = nodes /\ (q = r \/ (q = JobStateSet(r, "CANCELLED", {}) /\ ~Completing(r)))
      BY Zenon, <1>3 DEF CompleteJob, IsFinished, ActiveNodes, Finished, Active
    <2>2. {} \in SUBSET JobFlags /\ "CANCELLED" \in JobBase
      BY Zenon DEF JobBase, Finished
    <2>3. CASE q = r
      BY <2>1, <2>3, StepJobOnly, Zenon
    <2>4. CASE q = JobStateSet(r, "CANCELLED", {}) /\ ~Completing(r)
      <3>1. q \in JobRecord /\ q.state = "CANCELLED" /\ q.flags = {} /\ SameNodes(r, q)
        BY SMTT(30), <2>2, <2>4, JobStateSetFacts
      <3>2. JobOK(q) /\ ExpeditingOK(j, q) /\ CgSet(q) = CgSet(r)
        BY Zenon, <1>3, <2>4, <3>1 DEF JobOK, Active, Completing, SameNodes, ExpeditingOK, Expediting, CgSet
      <3>3. r.state \notin Active /\ q.state \notin Active
        BY Zenon, <1>3, <3>1 DEF Active
      <3> QED
        BY Zenon, <2>1, <3>1, <3>2, <3>3, StepJobOnly
    <2> QED
      BY Zenon, <2>1, <2>3, <2>4
  <1>4. CASE r.state \in Active
    <2>1. /\ q = EndJob(j, r, FinalState(code), code, nodes)
          /\ ns = EndNodes(j, r, FinalState(code), nodes)
      BY Zenon, <1>4 DEF CompleteJob, IsFinished, ActiveNodes, Finished, Active, JobOK
    <2>2. FinalState(code) \in JobBase \ Active
      BY Zenon DEF FinalState, JobBase, Active, Finished
    <2>3. /\ q \in JobRecord /\ JobOK(q) /\ ExpeditingOK(j, q) /\ q.state \notin Active
          /\ CgSet(q) = EndCg(r, nodes)
      BY SMTT(30), <1>4, <2>1, <2>2, EndJobEnds
    <2> QED
      BY <1>4, <2>1, <2>2, <2>3, StepEnds, Zenon
  <1> QED
    BY Zenon, <1>1, <1>2, <1>3, <1>4

\* A job over its time limit or on a failed node
LEMMA StepKilled ==
  ASSUME Counting, NEW j \in Jobs, NEW r \in JobRecord, JobOK(r), r.state \in Active,
         NEW state \in JobBase \ Active, NEW code \in ExitCodes,
         NEW nodes \in [Nodes -> NodeRecord]
  PROVE  StepOK(j, r, EndJob(j, r, state, code, nodes), nodes, EndNodes(j, r, state, nodes))
  <1> DEFINE q == EndJob(j, r, state, code, nodes)
  <1>1. /\ q \in JobRecord /\ JobOK(q) /\ ExpeditingOK(j, q) /\ q.state \notin Active
        /\ CgSet(q) = EndCg(r, nodes)
    BY EndJobEnds
  <1> QED
    BY Zenon, <1>1, StepEnds

\* _job_complete(requeue = true)
LEMMA StepRelaunch ==
  ASSUME Counting, NEW j \in Jobs, NEW r \in JobRecord, JobOK(r), r.state \in Active,
         NEW nodes \in [Nodes -> NodeRecord]
  PROVE  StepOK(j, r, RelaunchJob(j, r, nodes), nodes, EndNodes(j, r, "PENDING", nodes))
  <1> DEFINE h == HandleRequeueLimit([r EXCEPT !.batch_flag = @ + 1])
             q == EndJob(j, h, "PENDING", "zero", nodes)
  <1>1. h \in JobRecord /\ SameJob(r, h)
    BY RequeueHoldFacts, Zenon
  <1>2. RelaunchJob(j, r, nodes) = q
    BY Zenon DEF RelaunchJob
  <1> HIDE DEF h
  <1>3. JobOK(h) /\ h.state \in Active /\ EndCg(h, nodes) = EndCg(r, nodes)
    BY Zenon, <1>1, SameJobFacts DEF SameJob, SameNodes, EndCg
  <1>4. "PENDING" \in JobBase \ Active /\ "zero" \in ExitCodes
    BY Zenon DEF JobBase, Active, ExitCodes
  <1>5. /\ q \in JobRecord /\ JobOK(q) /\ ExpeditingOK(j, q) /\ q.state \notin Active
        /\ CgSet(q) = EndCg(r, nodes)
    BY SMTT(30), <1>1, <1>3, <1>4, EndJobEnds
  <1> QED
    BY Zenon, <1>2, <1>4, <1>5, StepEnds

\* The new record may be changed in ways the nodes do not see.
LEMMA StepSame ==
  ASSUME NEW j, NEW r, NEW q, NEW nodes, NEW ns, StepOK(j, r, q, nodes, ns),
         NEW t \in JobRecord, JobOK(t), ExpeditingOK(j, t),
         \/ q.state \notin Active /\ t.state \notin Active
         \/ q.state = t.state /\ q.node_bitmap = t.node_bitmap,
         CgSet(t) = CgSet(q)
  PROVE  StepOK(j, r, t, nodes, ns)
  <1>1. \A n \in Nodes : RunsOn(q, n) = RunsOn(t, n) /\ SuspendedAt(q, n) = SuspendedAt(t, n)
    BY Zenon DEF RunsOn, SuspendedAt, OnNode, Active
  <1> QED
    BY Zenon, <1>1 DEF StepOK, Moves

\* batch_requeue_fini() of a well formed job
LEMMA FinishRequeue ==
  ASSUME NEW j \in Jobs, NEW r \in JobRecord, JobOK(r), ExpeditingOK(j, r),
         r.state \notin Active
  PROVE  LET q == BatchRequeueFini(j, r)
         IN /\ q \in JobRecord /\ JobOK(q) /\ ExpeditingOK(j, q)
            /\ q.state = r.state /\ CgSet(q) = CgSet(r)
  <1> DEFINE q == BatchRequeueFini(j, r)
  <1>1. r.state = "PENDING" => Completing(r) \/ AllQuiet(r)
    BY Zenon DEF JobOK, AllQuiet
  <1>2. /\ q \in JobRecord /\ q.state = r.state
        /\ \/ q = r
           \/ /\ r.state = "PENDING" /\ AllQuiet(q) /\ ~Completing(q)
              /\ q.node_bitmap_cg = NULL
        /\ Completing(q) <=> Completing(r)
        /\ ExpeditingOK(j, r) => ExpeditingOK(j, q)
    BY <1>1, BatchRequeueFiniFacts, Zenon
  <1> HIDE DEF q
  <1>3. CASE q = r
    BY Zenon, <1>2, <1>3 DEF q
  <1>4. CASE AllQuiet(q) /\ ~Completing(q) /\ q.node_bitmap_cg = NULL
    BY Zenon, <1>2, <1>4 DEF q, JobOK, AllQuiet, CgSet
  <1> QED
    BY Zenon, <1>2, <1>3, <1>4

\* _job_requeue_op()
LEMMA StepRequeue ==
  ASSUME Counting, NEW j \in Jobs, NEW r \in JobRecord, JobOK(r), ExpeditingOK(j, r),
         RequeueAllowed(j, r), NEW kind, NEW state \in JobBase \ Active,
         NEW nodes \in [Nodes -> NodeRecord]
  PROVE  StepOK(j, r, RequeueJob(j, r, kind, nodes), nodes, ActiveNodes(j, r, state, nodes))
  <1> DEFINE q == RequeueJob(j, r, kind, nodes)
             ns == ActiveNodes(j, r, state, nodes)
  <1>1. "PENDING" \in JobBase \ Active /\ "PENDING" \in JobBase /\ "PENDING" \notin Active
        /\ r.flags \in SUBSET JobFlags /\ {} \in SUBSET JobFlags
    BY Zenon DEF JobBase, Active, JobRecord
  <1>2. CASE Completing(r)
    <2> DEFINE p == JobStateSet(r, "PENDING", r.flags)
    <2>1. r.state \notin Active /\ ns = nodes
      BY Zenon, <1>2 DEF JobOK, ActiveNodes
    <2>2. q = RequeueHold(p, kind)
      BY Zenon, <1>2 DEF RequeueJob, RequeueCompleting
    <2>3. p \in JobRecord /\ p.state = "PENDING" /\ p.flags = r.flags /\ SameNodes(r, p)
      BY SMTT(30), <1>1, JobStateSetFacts
    <2>4. JobOK(p) /\ ExpeditingOK(j, p) /\ CgSet(p) = CgSet(r)
      BY Zenon, <1>1, <1>2, <2>1, <2>3
         DEF JobOK, SameNodes, Completing, ExpeditingOK, Expediting, CgSet
    <2> HIDE DEF p
    <2>5. q \in JobRecord /\ SameJob(p, q)
      BY <2>2, <2>3, RequeueHoldFacts, ZenonT(30)
    <2>6. JobOK(q) /\ ExpeditingOK(j, q) /\ CgSet(q) = CgSet(r) /\ q.state \notin Active
      BY Zenon, <1>1, <2>3, <2>4, <2>5, SameJobFacts DEF SameJob
    <2> QED
      BY Zenon, <2>1, <2>5, <2>6, StepJobOnly
  <1>3. CASE ~Completing(r) /\ r.state \in Active
    <2> DEFINE t == EndJob(j, r, "PENDING", r.exit_code, nodes)
               u == SetRequeuedJobPendingCompleting(t)
               s == RequeueHold(u, kind)
    <2>1. ns = EndNodes(j, r, state, nodes) /\ r.exit_code \in ExitCodes
      BY Zenon, <1>3 DEF ActiveNodes, JobRecord
    <2>2. q = s \/ q = BatchRequeueFini(j, s)
      BY Zenon, <1>3 DEF RequeueJob, EndJob
    <2>3. t \in JobRecord /\ Settled(t) /\ ExpeditingOK(j, t) /\ CgSet(t) = EndCg(r, nodes)
      BY SMTT(30), <1>1, <1>3, <2>1, EndJobFacts
    <2> HIDE DEF t
    <2>4. /\ u \in JobRecord /\ u.state = "PENDING" /\ SameNodes(t, u)
          /\ JobOK(u) /\ ExpeditingOK(j, u)
      BY Zenon, <2>3, SetRequeuedFacts
    <2>5. CgSet(u) = EndCg(r, nodes)
      BY Zenon, <2>3, <2>4 DEF SameNodes, CgSet
    <2> HIDE DEF u
    <2>6. s \in JobRecord /\ SameJob(u, s)
      BY <2>4, RequeueHoldFacts, Zenon
    <2>7. /\ JobOK(s) /\ ExpeditingOK(j, s) /\ CgSet(s) = EndCg(r, nodes) /\ s.state = "PENDING"
      BY Zenon, <2>4, <2>5, <2>6, SameJobFacts DEF SameJob
    <2> HIDE DEF s
    <2>8. LET b == BatchRequeueFini(j, s)
          IN /\ b \in JobRecord /\ JobOK(b) /\ ExpeditingOK(j, b)
             /\ b.state = s.state /\ CgSet(b) = CgSet(s)
      BY Zenon, <1>1, <2>6, <2>7, FinishRequeue
    <2>9. /\ q \in JobRecord /\ JobOK(q) /\ ExpeditingOK(j, q) /\ q.state \notin Active
          /\ CgSet(q) = EndCg(r, nodes)
      BY Zenon, <1>1, <2>2, <2>6, <2>7, <2>8
    <2> QED
      BY <1>3, <2>1, <2>9, StepEnds, Zenon
  <1>4. CASE ~Completing(r) /\ r.state \notin Active
    <2> DEFINE p == JobStateSet(r, "PENDING", {})
               c == BuildCgBitmap(p)
               f == SetRequeuedJobPendingCompleting(c)
               h == RequeueHold(f, kind)
    <2>1. ns = nodes /\ q = BatchRequeueFini(j, h)
      BY Zenon, <1>4 DEF ActiveNodes, RequeueJob
    <2>2. p \in JobRecord /\ p.state = "PENDING" /\ p.flags = {} /\ SameNodes(r, p)
      BY SMTT(30), <1>1, JobStateSetFacts
    <2> HIDE DEF p
    <2>3. /\ c \in JobRecord /\ c.node_cnt = p.node_cnt /\ c.epilog_running = p.epilog_running
          /\ c.flags = IF c.node_bitmap_cg = {} THEN p.flags \ {"COMPLETING"} ELSE p.flags
      BY <2>2, BuildCgBitmapFacts, Zenon
    <2>4. AllQuiet(c) /\ c.flags = {}
      BY Zenon, <1>4, <2>2, <2>3 DEF JobOK, SameNodes, AllQuiet
    <2> HIDE DEF c
    <2>5. f = JobStateSet(c, "PENDING", {})
      BY Zenon, <2>4 DEF SetRequeuedJobPendingCompleting
    <2>6. f \in JobRecord /\ f.state = "PENDING" /\ f.flags = {} /\ SameNodes(c, f)
      BY SMTT(30), <1>1, <2>3, <2>5, JobStateSetFacts
    <2> HIDE DEF f
    <2>7. h \in JobRecord /\ SameJob(f, h)
      BY <2>6, RequeueHoldFacts, Zenon
    <2>8. h.state = "PENDING" /\ ~Completing(h) /\ AllQuiet(h) /\ ExpeditingOK(j, h) /\ j \in Batch
      BY Zenon, <2>4, <2>6, <2>7
         DEF SameJob, SameNodes, AllQuiet, Completing, ExpeditingOK, Expediting, RequeueAllowed
    <2> HIDE DEF h
    <2>9. /\ q \in JobRecord /\ q.state = "PENDING" /\ ~Completing(q) /\ ExpeditingOK(j, q)
          /\ AllQuiet(q) /\ q.node_bitmap_cg = NULL
      BY Zenon, <1>1, <2>1, <2>7, <2>8, BatchRequeueFiniFacts
    <2>10. JobOK(q) /\ CgSet(q) = {} /\ CgSet(r) = {}
      BY Zenon, <1>1, <1>4, <2>9 DEF JobOK, AllQuiet, CgSet
    <2> QED
      BY Zenon, <1>1, <1>4, <2>1, <2>9, <2>10, StepJobOnly
  <1> QED
    BY Zenon, <1>2, <1>3, <1>4

\* prolog_running_decr()
LEMMA PrologRunningDecrFacts ==
  ASSUME NEW j, NEW r \in JobRecord
  PROVE  LET q == PrologRunningDecr(r)
         IN /\ q \in JobRecord /\ q.state = r.state /\ q.node_bitmap = r.node_bitmap
            /\ JobOK(r) => JobOK(q)
            /\ ExpeditingOK(j, r) => ExpeditingOK(j, q)
            /\ CgSet(q) = CgSet(r)
  <1> DEFINE ready == "CONFIGURING" \in r.flags /\ r.state \in Active
             flags == IF ready THEN r.flags \ {"CONFIGURING"} ELSE r.flags
             launched == r.launched \/ ready
             q == [r EXCEPT !.prolog_running = FALSE, !.flags = flags, !.launched = launched]
  <1>1. PrologRunningDecr(r) = q
    BY Zenon DEF PrologRunningDecr
  <1>2. /\ flags \in SUBSET JobFlags
        /\ "COMPLETING" \in flags <=> "COMPLETING" \in r.flags
        /\ "EXPEDITING" \in flags <=> "EXPEDITING" \in r.flags
    BY Zenon DEF JobRecord
  <1>3. launched \in BOOLEAN
    BY Zenon
  <1> HIDE DEF flags, launched
  <1>4. q \in JobRecord
    BY <1>2, <1>3, Booleans, Zenon DEF JobRecord
  <1>5. /\ q.state = r.state /\ q.flags = flags /\ q.node_bitmap = r.node_bitmap
        /\ q.node_bitmap_cg = r.node_bitmap_cg /\ q.node_cnt = r.node_cnt
        /\ q.epilog_running = r.epilog_running
    BY Zenon DEF JobRecord
  <1> HIDE DEF q
  <1> QED
    BY Zenon, <1>1, <1>2, <1>4, <1>5 DEF JobOK, Completing, ExpeditingOK, Expediting, CgSet

-----------------------------------------------------------------------------
(* What the operations keep of a job record: the hold, the cancellation.   *)

\* A record with the fields of a job record.
Rec(r) == DOMAIN r = {"state", "flags", "node_bitmap", "node_bitmap_cg", "node_cnt",
                      "prolog_running", "epilog_running", "epilog_failed", "exit_code",
                      "held", "batch_flag", "launched", "sluid"}

\* What an operation that neither starts, suspends nor releases a job may do to
\* its record: a held job stays held, no prolog is started, no job is suspended.
Keeps(r, q) == /\ Rec(q)
               /\ r.held => q.held
               /\ q.prolog_running => r.prolog_running
               /\ q.state = "SUSPENDED" => r.state = "SUSPENDED"

\* The same of an operation that is not a requeue: a cancelled job stays so.
Stays(r, q) == Keeps(r, q) /\ (r.state = "CANCELLED" => q.state = "CANCELLED")

\* job_hold_requeue()
LEMMA JobHoldRequeueKeeps ==
  ASSUME NEW j, NEW r, Rec(r)
  PROVE  Stays(r, JobHoldRequeue(j, r))
  <1> DEFINE b == JobStateSet(r, "PENDING", r.flags)
  <1>1. \/ JobHoldRequeue(j, r) = r
        \/ /\ r.state # "CANCELLED"
           /\ \/ JobHoldRequeue(j, r) = JobStateSet(r, "PENDING", r.flags \cup {"EXPEDITING"})
              \/ JobHoldRequeue(j, r) = [b EXCEPT !.held = @ \/ RequeueExit = "hold"]
    BY Zenon DEF JobHoldRequeue
  <1> QED
    BY <1>1, Zenon DEF Stays, Keeps, Rec, JobStateSet

\* cleanup_completing()
LEMMA CleanupCompletingKeeps ==
  ASSUME NEW j, NEW r, Rec(r)
  PROVE  Stays(r, CleanupCompleting(j, r))
  <1> DEFINE p == [r EXCEPT !.flags = @ \ {"COMPLETING"}]
  <1>1. Stays(r, p) /\ Stays(r, r)
    BY Zenon DEF Stays, Keeps, Rec
  <1> HIDE DEF p
  <1>2. Stays(p, JobHoldRequeue(j, p))
    BY Zenon, <1>1, JobHoldRequeueKeeps DEF Stays, Keeps
  <1>3. CleanupCompleting(j, r) = IF AllQuiet(r) THEN JobHoldRequeue(j, p) ELSE r
    BY Zenon DEF CleanupCompleting, p
  <1> QED
    BY Zenon, <1>1, <1>2, <1>3 DEF Stays, Keeps

\* batch_requeue_fini()
LEMMA BatchRequeueFiniKeeps ==
  ASSUME NEW j, NEW r, Rec(r)
  PROVE  Stays(r, BatchRequeueFini(j, r))
  BY Zenon DEF BatchRequeueFini, Stays, Keeps, Rec

\* deallocate_nodes()
LEMMA DeallocateJobKeeps ==
  ASSUME NEW j, NEW r, Rec(r), NEW nodes
  PROVE  Stays(r, DeallocateJob(j, r, nodes))
  <1> DEFINE lost == r.node_bitmap_cg \cap DownNodes(nodes)
             q == [r EXCEPT !.epilog_running = EpilogSlurmctld,
                            !.node_bitmap_cg = @ \ lost,
                            !.node_cnt = @ - Cardinality(lost)]
             s == CleanupCompleting(j, q)
             u == [s EXCEPT !.node_bitmap_cg = {}, !.node_cnt = 0]
             t == CleanupCompleting(j, u)
             b == BatchRequeueFini(j, t)
  <1>1. DeallocateJob(j, r, nodes) \in {s, t, b}
    BY Zenon DEF DeallocateJob
  <1>2. Stays(r, q)
    BY Zenon DEF Stays, Keeps, Rec
  <1> HIDE DEF q
  <1>3. Stays(q, s)
    BY Zenon, <1>2, CleanupCompletingKeeps DEF Stays, Keeps
  <1> HIDE DEF s
  <1>4. Stays(s, u)
    BY Zenon, <1>3 DEF Stays, Keeps, Rec
  <1> HIDE DEF u
  <1>5. Stays(u, t)
    BY Zenon, <1>4, CleanupCompletingKeeps DEF Stays, Keeps
  <1> HIDE DEF t
  <1>6. Stays(t, b)
    BY Zenon, <1>5, BatchRequeueFiniKeeps DEF Stays, Keeps
  <1> HIDE DEF b
  <1> QED
    BY Zenon, <1>1, <1>2, <1>3, <1>4, <1>5, <1>6 DEF Stays, Keeps

\* The changes of the record that call no other operation.
LEMMA RecordKeeps ==
  ASSUME NEW r, Rec(r)
  PROVE  /\ Stays(r, BuildCgBitmap(r))
         /\ \A kind : Stays(r, RequeueHold(r, kind))
         /\ Stays(r, HandleRequeueLimit([r EXCEPT !.batch_flag = @ + 1]))
         /\ Stays(r, PrologRunningDecr(r))
         /\ Keeps(r, SetRequeuedJobPendingCompleting(r))
         /\ \A state, flags : state # "SUSPENDED" => Keeps(r, JobStateSet(r, state, flags))
  <1>1. Stays(r, BuildCgBitmap(r))
    BY Zenon DEF BuildCgBitmap, Stays, Keeps, Rec
  <1>2. Stays(r, HandleRequeueLimit([r EXCEPT !.batch_flag = @ + 1]))
    BY Zenon DEF HandleRequeueLimit, Stays, Keeps, Rec
  <1>3. ASSUME NEW kind PROVE Stays(r, RequeueHold(r, kind))
    <2> DEFINE h == HandleRequeueLimit([r EXCEPT !.batch_flag = @ + 1])
    <2>1. RequeueHold(r, kind) \in {[r EXCEPT !.held = TRUE], [h EXCEPT !.held = TRUE], r}
      BY Zenon DEF RequeueHold
    <2> HIDE DEF h
    <2>2. Stays(r, h)
      BY Zenon, <1>2 DEF h
    <2> QED
      BY Zenon, <2>1, <2>2 DEF Stays, Keeps, Rec
  <1>4. Stays(r, PrologRunningDecr(r))
    BY Zenon DEF PrologRunningDecr, Stays, Keeps, Rec
  <1>5. Keeps(r, SetRequeuedJobPendingCompleting(r))
    BY Zenon DEF SetRequeuedJobPendingCompleting, JobStateSet, Keeps, Rec
  <1>6. \A state, flags : state # "SUSPENDED" => Keeps(r, JobStateSet(r, state, flags))
    BY Zenon DEF JobStateSet, Keeps, Rec
  <1> QED
    BY Zenon, <1>1, <1>2, <1>3, <1>4, <1>5, <1>6

\* Every ending of an active job
LEMMA EndJobKeeps ==
  ASSUME NEW j, NEW r, Rec(r), NEW state, state # "SUSPENDED", NEW code, NEW nodes
  PROVE  Keeps(r, Ending(r, state, code)) /\ Keeps(r, EndJob(j, r, state, code, nodes))
  <1> DEFINE a == JobStateSet(r, state, {"COMPLETING"})
             b == [a EXCEPT !.exit_code = code]
             q == Ending(r, state, code)
  <1>1. Keeps(r, a)
    BY RecordKeeps, Zenon
  <1> HIDE DEF a
  <1>2. Keeps(a, b)
    BY Zenon, <1>1 DEF Keeps, Rec
  <1>3. q = BuildCgBitmap(b)
    BY Zenon DEF Ending, a
  <1> HIDE DEF b, q
  <1>4. Keeps(b, q)
    BY <1>2, <1>3, RecordKeeps, Zenon DEF Stays, Keeps
  <1>5. Keeps(q, EndJob(j, r, state, code, nodes))
    BY Zenon, <1>4, DeallocateJobKeeps DEF EndJob, Stays, Keeps, q
  <1> QED
    BY Zenon, <1>1, <1>2, <1>4, <1>5 DEF Keeps, q

\* _job_requeue_op()
LEMMA RequeueJobKeeps ==
  ASSUME NEW j, NEW r, Rec(r), NEW kind, NEW nodes
  PROVE  Keeps(r, RequeueJob(j, r, kind, nodes))
  <1> DEFINE q == Ending(r, "PENDING", r.exit_code)
             t == DeallocateJob(j, q, nodes)
             p == SetRequeuedJobPendingCompleting(t)
             s == RequeueHold(p, kind)
             a == JobStateSet(r, "PENDING", {})
             c == BuildCgBitmap(a)
             f == SetRequeuedJobPendingCompleting(c)
             h == RequeueHold(f, kind)
             k == JobStateSet(r, "PENDING", r.flags)
             l == RequeueHold(k, kind)
  <1>1. RequeueJob(j, r, kind, nodes) \in {l, s, BatchRequeueFini(j, s), BatchRequeueFini(j, h)}
    BY Zenon DEF RequeueJob, RequeueCompleting
  <1>2. Keeps(r, q) /\ Keeps(r, a) /\ Keeps(r, k)
    BY EndJobKeeps, RecordKeeps, Zenon
  <1> HIDE DEF q, a, k
  <1>3. Keeps(q, t) /\ Keeps(a, c) /\ Keeps(k, l)
    BY <1>2, DeallocateJobKeeps, RecordKeeps, Zenon DEF Stays, Keeps
  <1> HIDE DEF t, c, l
  <1>4. Keeps(t, p) /\ Keeps(c, f)
    BY <1>3, RecordKeeps, Zenon DEF Keeps
  <1> HIDE DEF p, f
  <1>5. Keeps(p, s) /\ Keeps(f, h)
    BY <1>4, RecordKeeps, Zenon DEF Stays, Keeps
  <1> HIDE DEF s, h
  <1>6. Keeps(s, BatchRequeueFini(j, s)) /\ Keeps(h, BatchRequeueFini(j, h))
    BY Zenon, <1>5, BatchRequeueFiniKeeps DEF Stays, Keeps
  <1>7. Keeps(r, s) /\ Keeps(r, h) /\ Keeps(r, l)
    BY Zenon, <1>2, <1>3, <1>4, <1>5 DEF Keeps
  <1> QED
    BY Zenon, <1>1, <1>6, <1>7 DEF Keeps

\* The other operations of the handlers
LEMMA HandlerKeeps ==
  ASSUME NEW j, NEW r, Rec(r), NEW nodes, NEW code, NEW n
  PROVE  /\ Stays(r, CancelJob(j, r, nodes))
         /\ Stays(r, CompleteJob(j, r, code, nodes))
         /\ Keeps(r, RelaunchJob(j, r, nodes))
         /\ Stays(r, NodeEpilogDone(j, r, n))
         /\ Stays(r, CleanupRequeue(j, r))
  <1>1. Stays(r, CancelJob(j, r, nodes))
    <2>1. CASE IsFinished(r)
      <3>1. r.state # "PENDING"
        BY Zenon, <2>1 DEF IsFinished, Finished
      <3>2. CancelJob(j, r, nodes) = r
        BY <2>1, <3>1, Zenon DEF CancelJob
      <3> QED
        BY Zenon, <3>2 DEF Stays, Keeps
    <2>2. CASE ~IsFinished(r)
      <3>1. r.state # "CANCELLED"
        BY Zenon, <2>2 DEF IsFinished, Finished
      <3>2. CancelJob(j, r, nodes) \in {JobStateSet(r, "CANCELLED", r.flags \cap {"COMPLETING"}),
                                        EndJob(j, r, "CANCELLED", r.exit_code, nodes)}
        BY <2>2, Zenon DEF CancelJob
      <3> QED
        BY <3>1, <3>2, EndJobKeeps, RecordKeeps, Zenon DEF Stays
    <2> QED
      BY Zenon, <2>1, <2>2
  <1>2. Stays(r, CompleteJob(j, r, code, nodes))
    <2> DEFINE e == [r EXCEPT !.exit_code = IF @ = "zero" THEN code ELSE @]
    <2>1. Stays(r, e) /\ Stays(r, r)
      BY Zenon DEF Stays, Keeps, Rec
    <2>2. CASE IsFinished(r)
      <3>1. r.state # "PENDING"
        BY Zenon, <2>2 DEF IsFinished, Finished
      <3>2. CompleteJob(j, r, code, nodes) = e
        BY <2>2, <3>1, Zenon DEF CompleteJob
      <3> HIDE DEF e
      <3> QED
        BY Zenon, <2>1, <3>2
    <2>3. CASE ~IsFinished(r)
      <3>1. r.state # "CANCELLED"
        BY Zenon, <2>3 DEF IsFinished, Finished
      <3>2. CompleteJob(j, r, code, nodes) \in {r, JobStateSet(r, "CANCELLED", {}),
                                                EndJob(j, r, FinalState(code), code, nodes)}
        BY <2>3, Zenon DEF CompleteJob
      <3>3. FinalState(code) # "SUSPENDED"
        BY Zenon DEF FinalState
      <3>4. /\ Keeps(r, EndJob(j, r, FinalState(code), code, nodes))
            /\ Keeps(r, JobStateSet(r, "CANCELLED", {}))
        BY <3>3, EndJobKeeps, RecordKeeps, Zenon
      <3> QED
        BY Zenon, <2>1, <3>1, <3>2, <3>4 DEF Stays
    <2> QED
      BY Zenon, <2>2, <2>3
  <1>3. Keeps(r, RelaunchJob(j, r, nodes))
    <2> DEFINE h == HandleRequeueLimit([r EXCEPT !.batch_flag = @ + 1])
    <2>1. Keeps(r, h)
      BY Zenon, RecordKeeps DEF Stays
    <2> HIDE DEF h
    <2>2. Keeps(h, EndJob(j, h, "PENDING", "zero", nodes))
      BY Zenon, <2>1, EndJobKeeps DEF Keeps
    <2> QED
      BY Zenon, <2>1, <2>2 DEF RelaunchJob, Keeps, h
  <1>4. Stays(r, NodeEpilogDone(j, r, n))
    <2> DEFINE p == [r EXCEPT !.node_bitmap_cg = @ \ {n}, !.node_cnt = @ - 1]
    <2>1. Stays(r, p) /\ Stays(r, r)
      BY Zenon DEF Stays, Keeps, Rec
    <2>2. NodeEpilogDone(j, r, n) \in {r, CleanupCompleting(j, p)}
      BY Zenon DEF NodeEpilogDone
    <2> HIDE DEF p
    <2>3. Stays(p, CleanupCompleting(j, p))
      BY Zenon, <2>1, CleanupCompletingKeeps DEF Stays, Keeps
    <2> QED
      BY Zenon, <2>1, <2>2, <2>3 DEF Stays, Keeps
  <1>5. Stays(r, CleanupRequeue(j, r))
    <2> DEFINE c == CleanupCompleting(j, r)
    <2>1. Stays(r, c) /\ Stays(r, r)
      BY Zenon, CleanupCompletingKeeps DEF Stays, Keeps
    <2> HIDE DEF c
    <2>2. Stays(c, BatchRequeueFini(j, c))
      BY Zenon, <2>1, BatchRequeueFiniKeeps DEF Stays, Keeps
    <2>3. CleanupRequeue(j, r) \in {r, BatchRequeueFini(j, c)}
      BY Zenon DEF CleanupRequeue, c
    <2> QED
      BY Zenon, <2>1, <2>2, <2>3 DEF Stays, Keeps
  <1> QED
    BY Zenon, <1>1, <1>2, <1>3, <1>4, <1>5

-----------------------------------------------------------------------------
(* The nodes a job uses.                                                   *)

\* The nodes on which a job is active or whose epilog it waits for.
Uses(r, n) == \/ r.state \in Active /\ OnNode(r, n)
              \/ Completing(r) /\ n \in r.node_bitmap_cg

\* A job that may start or runs has no node_bitmap_cg: batch_requeue_fini() has
\* freed it.  Only batch jobs are pending while they complete.
Freed(j, r) ==
  IF Completing(r) THEN r.state = "PENDING" => j \in Batch
  ELSE r.state \in Active \cup {"PENDING"} => r.node_bitmap_cg = NULL

\* The record of a job that has ended loses nodes and gains none.
Loses(r, q) == /\ Rec(q) /\ CgSet(q) \subseteq CgSet(r)
               /\ r.state \notin Active => q.state \notin Active

\* job_hold_requeue(), cleanup_completing(): a job that is put back in the queue
\* is one that may be requeued.
LEMMA CleanupCompletingFrees ==
  ASSUME NEW j, NEW r, Rec(r), r.state \notin Active
  PROVE  LET q == CleanupCompleting(j, r)
         IN /\ Rec(q) /\ q.state \notin Active
            /\ q.node_bitmap_cg = r.node_bitmap_cg /\ q.node_cnt = r.node_cnt
            /\ q.epilog_running = r.epilog_running
            /\ ~AllQuiet(r) => q = r
            /\ AllQuiet(r) => ~Completing(q)
            /\ \/ q.state = r.state
               \/ q.state = "PENDING" /\ j \in Requeue /\ r.exit_code = "exit"
  <1> DEFINE p == [r EXCEPT !.flags = @ \ {"COMPLETING"}]
             a == JobStateSet(p, "PENDING", p.flags \cup {"EXPEDITING"})
             b == JobStateSet(p, "PENDING", p.flags)
             c == [b EXCEPT !.held = @ \/ RequeueExit = "hold"]
             q == JobHoldRequeue(j, p)
  <1>1. /\ Rec(p) /\ p.state = r.state /\ p.flags = r.flags \ {"COMPLETING"}
        /\ p.node_bitmap_cg = r.node_bitmap_cg /\ p.node_cnt = r.node_cnt
        /\ p.epilog_running = r.epilog_running /\ p.exit_code = r.exit_code
    BY Zenon DEF Rec
  <1> HIDE DEF p
  <1>2. \/ q = p
        \/ j \in Requeue /\ p.exit_code = "exit" /\ q \in {a, c}
    BY Zenon DEF JobHoldRequeue
  <1>3. /\ Rec(q) /\ q.node_bitmap_cg = p.node_bitmap_cg /\ q.node_cnt = p.node_cnt
        /\ q.epilog_running = p.epilog_running
        /\ Completing(q) => Completing(p)
        /\ q.state = p.state \/ (q.state = "PENDING" /\ j \in Requeue /\ p.exit_code = "exit")
    <2>1. ASSUME NEW x \in {a, c}
          PROVE  /\ Rec(x) /\ x.node_bitmap_cg = p.node_bitmap_cg /\ x.node_cnt = p.node_cnt
                 /\ x.epilog_running = p.epilog_running /\ x.state = "PENDING"
                 /\ "COMPLETING" \in x.flags => "COMPLETING" \in p.flags
      <3>1. CASE x = a
        BY Zenon, <1>1, <3>1 DEF Rec, JobStateSet
      <3>2. CASE x = c
        <4>1. Rec(b) /\ b.node_bitmap_cg = p.node_bitmap_cg /\ b.node_cnt = p.node_cnt
              /\ b.epilog_running = p.epilog_running /\ b.state = "PENDING" /\ b.flags = p.flags
          BY Zenon, <1>1 DEF Rec, JobStateSet
        <4> HIDE DEF b
        <4> QED
          BY Zenon, <3>2, <4>1 DEF Rec
      <3> QED
        BY Zenon, <3>1, <3>2
    <2> HIDE DEF q, a, c
    <2> QED
      BY Zenon, <1>1, <1>2, <2>1 DEF Completing
  <1>4. ~Completing(p)
    BY Zenon, <1>1 DEF Completing
  <1>5. CleanupCompleting(j, r) = IF AllQuiet(r) THEN q ELSE r
    BY Zenon DEF CleanupCompleting, p
  <1> HIDE DEF q
  <1>6. "PENDING" \notin Active
    BY Zenon DEF Active
  <1> QED
    BY Zenon, <1>1, <1>3, <1>4, <1>5, <1>6

\* batch_requeue_fini() of a job with nothing left frees a batch job.
LEMMA FiniFrees ==
  ASSUME NEW j, NEW r, Rec(r), r.state = "PENDING" /\ ~Completing(r) => j \in Batch /\ ~r.epilog_running,
         r.state \notin Active
  PROVE  LET q == BatchRequeueFini(j, r)
         IN /\ Loses(r, q) /\ q.state = r.state /\ q.state \notin Active
            /\ ~Completing(r) => Freed(j, q) /\ ~Completing(q)
            /\ Completing(r) => q = r
  <1> DEFINE hold == Expediting(r) /\ ~r.epilog_failed
             flags == IF hold THEN r.flags \ {"EXPEDITING"} ELSE r.flags
             q == [r EXCEPT !.flags = flags, !.held = @ \/ hold, !.node_cnt = 0,
                            !.node_bitmap = NULL, !.node_bitmap_cg = NULL,
                            !.epilog_failed = FALSE, !.launched = FALSE, !.sluid = @ + 1]
  <1>1. CASE Completing(r) \/ r.state # "PENDING"
    <2>1. BatchRequeueFini(j, r) = r
      BY Zenon, <1>1 DEF BatchRequeueFini
    <2> QED
      BY Zenon, <1>1, <2>1 DEF Loses, Freed
  <1>2. CASE ~Completing(r) /\ r.state = "PENDING"
    <2>1. BatchRequeueFini(j, r) = q
      BY <1>2, Zenon DEF BatchRequeueFini
    <2>2. flags \subseteq r.flags
      BY Zenon
    <2> HIDE DEF flags, hold
    <2>3. Rec(q) /\ q.state = r.state /\ q.flags = flags /\ q.node_bitmap_cg = NULL
      BY Zenon DEF Rec
    <2> HIDE DEF q
    <2> QED
      BY Zenon, <1>2, <2>1, <2>2, <2>3 DEF Loses, Freed, CgSet, Completing
  <1> QED
    BY Zenon, <1>1, <1>2

-----------------------------------------------------------------------------
(* Completion.                                                             *)

\* The nodes stay records, stay healthy, and their counters do not change.
Quiet(nodes, ns) ==
  /\ ns \in [Nodes -> NodeRecord]
  /\ \A n \in Nodes : /\ Healthy(nodes[n]) => Healthy(ns[n])
                      /\ ns[n].run_job_cnt = nodes[n].run_job_cnt
                      /\ ns[n].sus_job_cnt = nodes[n].sus_job_cnt
                      /\ Expedited = {} => ns[n].comp_job_cnt = nodes[n].comp_job_cnt

\* The deferred decrements of batch_requeue_fini()
LEMMA ExpediteReleaseFacts ==
  ASSUME NEW j \in Jobs, NEW r \in JobRecord, ExpeditingOK(j, r),
         NEW nodes \in [Nodes -> NodeRecord]
  PROVE  Quiet(nodes, ExpediteRelease(r, nodes))
  <1> DEFINE d(n) == [nodes[n] EXCEPT !.comp_job_cnt = Decr(@)]
             e(n) == RefreshIdle(d(n))
             ns == ExpediteRelease(r, nodes)
  <1>1. ns = [n \in Nodes |-> IF Expediting(r) /\ OnNode(r, n) THEN e(n) ELSE nodes[n]]
    BY Zenon DEF ExpediteRelease
  <1>2. Expedited = {} => ~Expediting(r)
    BY Zenon DEF ExpeditingOK
  <1>3. ASSUME NEW n \in Nodes
        PROVE  /\ e(n) \in NodeRecord
               /\ Healthy(nodes[n]) => Healthy(e(n))
               /\ e(n).run_job_cnt = nodes[n].run_job_cnt
               /\ e(n).sus_job_cnt = nodes[n].sus_job_cnt
    <2>1. nodes[n] \in NodeRecord
      BY Zenon
    <2>2. d(n) \in NodeRecord /\ (Healthy(nodes[n]) => Healthy(d(n)))
      BY <2>1, LeavePhaseType, HealthyKept, Zenon
    <2>3. d(n).run_job_cnt = nodes[n].run_job_cnt /\ d(n).sus_job_cnt = nodes[n].sus_job_cnt
      BY Zenon, <2>1 DEF NodeRecord
    <2> HIDE DEF d
    <2>4. e(n) \in NodeRecord /\ SameCounts(d(n), e(n))
      BY <2>2, RefreshIdleType, CountsKept, Zenon
    <2>5. Healthy(d(n)) => Healthy(e(n))
      BY <2>2, Booleans, HealthyIdle, Zenon
    <2> QED
      BY Zenon, <2>2, <2>3, <2>4, <2>5 DEF SameCounts
  <1> HIDE DEF e, ns
  <1>4. \A n \in Nodes : ns[n] = IF Expediting(r) /\ OnNode(r, n) THEN e(n) ELSE nodes[n]
    BY Zenon, <1>1
  <1>5. ns \in [Nodes -> NodeRecord]
    BY Zenon, <1>1, <1>3
  <1> QED
    BY Zenon, <1>2, <1>3, <1>4, <1>5 DEF Quiet, ns

\* Where no job is requeued expedited, no decrement of make_node_idle() is
\* deferred, so that batch_requeue_fini() has none to make up for.
LEMMA NoRelease ==
  ASSUME Expedited = {}, NEW j, NEW r, Rec(r), ~Expediting(r), NEW nodes \in [Nodes -> NodeRecord]
  PROVE  /\ ExpediteRelease(r, nodes) = nodes
         /\ CleanupRequeueNodes(j, r, nodes) = nodes
         /\ ~Expediting(CleanupCompleting(j, r))
  <1>1. ASSUME NEW x, ~Expediting(x) PROVE ExpediteRelease(x, nodes) = nodes
    BY Zenon, <1>1 DEF ExpediteRelease
  <1>2. ASSUME NEW x, Rec(x), ~Expediting(x) PROVE ~Expediting(JobHoldRequeue(j, x))
    <2> DEFINE b == JobStateSet(x, "PENDING", x.flags)
    <2>1. \/ JobHoldRequeue(j, x) = x
          \/ JobHoldRequeue(j, x) = [b EXCEPT !.held = @ \/ RequeueExit = "hold"]
      BY Zenon DEF JobHoldRequeue
    <2> QED
      BY <1>2, <2>1, Zenon DEF Rec, JobStateSet, Expediting
  <1>3. ~Expediting(CleanupCompleting(j, r))
    <2> DEFINE p == [r EXCEPT !.flags = @ \ {"COMPLETING"}]
    <2>1. Rec(p) /\ ~Expediting(p)
      BY Zenon DEF Rec, Expediting
    <2>2. CleanupCompleting(j, r) = IF AllQuiet(r) THEN JobHoldRequeue(j, p) ELSE r
      BY Zenon DEF CleanupCompleting
    <2> HIDE DEF p
    <2> QED
      BY Zenon, <1>2, <2>1, <2>2
  <1> QED
    BY Zenon, <1>1, <1>3 DEF CleanupRequeueNodes

\* cleanup_completing(job, true)
LEMMA CleanupRequeueFacts ==
  ASSUME Counting, NEW j \in Jobs, NEW r \in JobRecord, Waiting(r), Completing(r), ExpeditingOK(j, r),
         NEW nodes \in [Nodes -> NodeRecord]
  PROVE  LET q == CleanupRequeue(j, r)
         IN /\ q \in JobRecord /\ JobOK(q) /\ ExpeditingOK(j, q)
            /\ q.state \notin Active /\ CgSet(q) = CgSet(r)
            /\ Quiet(nodes, CleanupRequeueNodes(j, r, nodes))
  <1>1. CASE ~AllQuiet(r)
    BY Zenon, <1>1 DEF CleanupRequeue, CleanupRequeueNodes, JobOK, Waiting, Quiet
  <1>2. CASE AllQuiet(r)
    <2> DEFINE c == CleanupCompleting(j, r)
               q == BatchRequeueFini(j, c)
    <2>1. q = CleanupRequeue(j, r) /\ CleanupRequeueNodes(j, r, nodes) = ExpediteRelease(c, nodes)
      BY Zenon, <1>2 DEF CleanupRequeue, CleanupRequeueNodes
    <2>2. /\ c \in JobRecord /\ Settled(c) /\ SameNodes(r, c)
          /\ Completing(c) <=> Completing(r) /\ ~AllQuiet(r)
          /\ ExpeditingOK(j, r) => ExpeditingOK(j, c)
      BY CleanupCompletingFacts, Zenon
    <2> HIDE DEF c
    <2>3. AllQuiet(c) /\ ~Completing(c) /\ CgSet(c) = CgSet(r)
      BY Zenon, <1>2, <2>2 DEF AllQuiet, SameNodes, CgSet
    <2>4. JobOK(c) /\ c.state \notin Active
      BY Zenon, <2>2, <2>3, SettledOK
    <2>5. /\ q \in JobRecord /\ JobOK(q) /\ ExpeditingOK(j, q)
          /\ q.state = c.state /\ CgSet(q) = CgSet(c)
      BY Zenon, <2>2, <2>4, FinishRequeue
    <2>6. Quiet(nodes, ExpediteRelease(c, nodes))
      BY Zenon, <2>2, ExpediteReleaseFacts
    <2> QED
      BY Zenon, <2>1, <2>3, <2>4, <2>5, <2>6
  <1> QED
    BY Zenon, <1>1, <1>2

\* What is left of node_bitmap_cg and node_cnt when a job waits no more for lost.
LEMMA LeaveCount ==
  ASSUME Counting, NEW r \in JobRecord, JobOK(r), Completing(r), NEW lost \in SUBSET r.node_bitmap_cg
  PROVE  LET left == r.node_bitmap_cg \ lost
         IN /\ left \in Bitmaps /\ left # NULL
            /\ r.node_cnt - Cardinality(lost) = Cardinality(left)
            /\ Cardinality(left) \in Nat
            /\ r.node_bitmap_cg \in SUBSET Nodes /\ left \subseteq r.node_bitmap
  <1> DEFINE left == r.node_bitmap_cg \ lost
  <1>1. r.node_bitmap_cg \in SUBSET Nodes /\ r.node_bitmap_cg \subseteq r.node_bitmap
    BY Zenon, NullBitmap DEF JobRecord, JobOK
  <1>2. r.node_cnt = Cardinality(r.node_bitmap_cg)
    BY Zenon DEF JobOK
  <1>3. Cardinality(left) = r.node_cnt - Cardinality(lost)
    BY Zenon, <1>1, <1>2, NodeSetDifference
  <1>4. left \in SUBSET Nodes
    BY Zenon, <1>1
  <1> QED
    BY Zenon, <1>1, <1>3, <1>4, NodeSets, NullAssumption DEF Bitmaps

\* A completing job stops waiting for some nodes.
LEMMA LeaveNodes ==
  ASSUME Counting, NEW j \in Jobs, NEW r \in JobRecord, JobOK(r), Completing(r),
         NEW lost \in SUBSET r.node_bitmap_cg, NEW q \in JobRecord,
         q.node_bitmap_cg = r.node_bitmap_cg \ lost,
         q.node_cnt = r.node_cnt - Cardinality(lost),
         q.state = r.state, q.flags = r.flags, q.node_bitmap = r.node_bitmap
  PROVE  /\ Waiting(q) /\ Completing(q) /\ JobOK(q) /\ q.state \notin Active
         /\ CgSet(q) = CgSet(r) \ lost
         /\ ExpeditingOK(j, r) => ExpeditingOK(j, q)
  <1>1. /\ r.state \notin Active /\ r.node_bitmap # NULL /\ r.node_bitmap_cg # NULL
    BY Zenon DEF JobOK
  <1>2. /\ q.node_bitmap_cg # NULL /\ q.node_cnt = Cardinality(q.node_bitmap_cg)
        /\ q.node_bitmap_cg \subseteq q.node_bitmap
    BY Zenon, LeaveCount
  <1>3. Waiting(q) /\ Completing(q) /\ q.state \notin Active
    BY Zenon, <1>1, <1>2 DEF Waiting, Completing
  <1>4. JobOK(q)
    BY Zenon, <1>3 DEF JobOK, Waiting
  <1> QED
    BY Zenon, <1>1, <1>2, <1>3, <1>4 DEF CgSet, ExpeditingOK, Expediting

\* A completing job stops waiting for some nodes, and they stop counting it.
LEMMA StepLeaves ==
  ASSUME NEW j \in Jobs, NEW r \in JobRecord, JobOK(r), Completing(r),
         NEW q \in JobRecord, JobOK(q), ExpeditingOK(j, q), q.state \notin Active,
         NEW lost \in SUBSET r.node_bitmap_cg, CgSet(q) = CgSet(r) \ lost,
         NEW nodes \in [Nodes -> NodeRecord], NEW ns \in [Nodes -> NodeRecord],
         \A n \in Nodes :
           /\ Healthy(nodes[n]) => Healthy(ns[n])
           /\ ns[n].run_job_cnt = nodes[n].run_job_cnt
           /\ ns[n].sus_job_cnt = nodes[n].sus_job_cnt
           /\ Expedited = {} =>
                ns[n].comp_job_cnt = IF n \in lost THEN Decr(nodes[n].comp_job_cnt)
                                     ELSE nodes[n].comp_job_cnt
  PROVE  StepOK(j, r, q, nodes, ns)
  <1>1. r.state \notin Active /\ lost \subseteq CgSet(r)
    BY Zenon DEF JobOK, CgSet
  <1>2. ASSUME NEW n \in Nodes, Counts(r, nodes[n], n)
        PROVE  Moves(r, q, nodes[n], ns[n], n)
    <2>1. ~RunsOn(r, n) /\ ~RunsOn(q, n) /\ ~SuspendedAt(r, n) /\ ~SuspendedAt(q, n)
      BY Zenon, <1>1 DEF RunsOn, SuspendedAt, Active
    <2>2. n \in CgSet(q) <=> n \in CgSet(r) /\ n \notin lost
      BY Zenon
    <2>3. nodes[n] \in NodeRecord
      BY Zenon
    <2> QED
      BY SMTT(30), <1>1, <1>2, <2>1, <2>2, <2>3, CounterType DEF Moves, Counts, Decr, Bit
  <1> QED
    BY Zenon, <1>2 DEF StepOK

\* prep_epilog_slurmctld_callback()
LEMMA StepEpilogSlurmctld ==
  ASSUME Counting, NEW j \in Jobs, NEW r \in JobRecord, JobOK(r), ExpeditingOK(j, r),
         NEW nodes \in [Nodes -> NodeRecord], NEW e,
         e = [r EXCEPT !.epilog_running = FALSE]
  PROVE  /\ Completing(e) => StepOK(j, r, CleanupRequeue(j, e), nodes, CleanupRequeueNodes(j, e, nodes))
         /\ ~Completing(e) => StepOK(j, r, e, nodes, nodes)
  <1>1. e \in JobRecord
    BY Booleans, Zenon DEF JobRecord
  <1>2. /\ e.state = r.state /\ e.flags = r.flags /\ e.node_bitmap = r.node_bitmap
        /\ e.node_bitmap_cg = r.node_bitmap_cg /\ e.node_cnt = r.node_cnt
    BY Zenon DEF JobRecord
  <1>3. ~e.epilog_running
    BY Zenon DEF JobRecord
  <1>4. JobOK(e) /\ ExpeditingOK(j, e) /\ CgSet(e) = CgSet(r)
        /\ (Completing(e) <=> Completing(r)) /\ (Completing(e) => Waiting(e))
    BY Zenon, <1>2, <1>3 DEF JobOK, Completing, ExpeditingOK, Expediting, CgSet, Waiting
  <1>5. ASSUME Completing(e)
        PROVE  StepOK(j, r, CleanupRequeue(j, e), nodes, CleanupRequeueNodes(j, e, nodes))
    <2> DEFINE q == CleanupRequeue(j, e)
               ns == CleanupRequeueNodes(j, e, nodes)
    <2>1. /\ q \in JobRecord /\ JobOK(q) /\ ExpeditingOK(j, q)
          /\ q.state \notin Active /\ CgSet(q) = CgSet(e) /\ Quiet(nodes, ns)
      BY Zenon, <1>1, <1>4, <1>5, CleanupRequeueFacts
    <2> HIDE DEF q, ns
    <2>2. {} \in SUBSET r.node_bitmap_cg /\ CgSet(q) = CgSet(r) \ {} /\ Completing(r)
      BY Zenon, <1>4, <1>5, <2>1
    <2>3. StepOK(j, r, q, nodes, ns)
      BY <2>1, <2>2, StepLeaves, Zenon DEF Quiet
    <2> QED
      BY Zenon, <2>3 DEF q, ns
  <1>6. ASSUME ~Completing(e) PROVE StepOK(j, r, e, nodes, nodes)
    BY <1>1, <1>2, <1>4, StepJobOnly, Zenon
  <1> QED
    BY Zenon, <1>5, <1>6

\* re_kill_job()
LEMMA StepReKill ==
  ASSUME Counting, NEW j \in Jobs, NEW r \in JobRecord, JobOK(r), ExpeditingOK(j, r), Completing(r),
         NEW nodes \in [Nodes -> NodeRecord]
  PROVE  LET lost == r.node_bitmap_cg \cap DownNodes(nodes)
             q == [r EXCEPT !.node_bitmap_cg = @ \ lost, !.node_cnt = @ - Cardinality(lost)]
             ns == [n \in Nodes |->
                      IF n \in lost THEN [nodes[n] EXCEPT !.comp_job_cnt = Decr(@)]
                      ELSE nodes[n]]
         IN /\ StepOK(j, r, CleanupRequeue(j, q), nodes, CleanupRequeueNodes(j, q, ns))
            /\ StepOK(j, r, q, nodes, ns)
            /\ q.node_bitmap_cg \in SUBSET Nodes
  <1> DEFINE lost == r.node_bitmap_cg \cap DownNodes(nodes)
             left == r.node_bitmap_cg \ lost
             cnt  == r.node_cnt - Cardinality(lost)
             q == [r EXCEPT !.node_bitmap_cg = left, !.node_cnt = cnt]
             ns == [n \in Nodes |->
                      IF n \in lost THEN [nodes[n] EXCEPT !.comp_job_cnt = Decr(@)]
                      ELSE nodes[n]]
  <1>1. lost \in SUBSET r.node_bitmap_cg
    BY Zenon
  <1> HIDE DEF lost
  <1>2. q \in JobRecord
    <2>1. left \in Bitmaps /\ cnt \in Nat
      BY <1>1, LeaveCount, Zenon
    <2> HIDE DEF left, cnt
    <2> QED
      BY <2>1, Zenon DEF JobRecord
  <1>3. /\ Waiting(q) /\ Completing(q) /\ JobOK(q) /\ q.state \notin Active
        /\ CgSet(q) = CgSet(r) \ lost
        /\ ExpeditingOK(j, q)
        /\ q.node_bitmap_cg \in SUBSET Nodes
    <2>1. /\ q.node_bitmap_cg = left /\ q.node_cnt = cnt
          /\ q.state = r.state /\ q.flags = r.flags /\ q.node_bitmap = r.node_bitmap
      BY Zenon DEF JobRecord
    <2>2. left \in SUBSET Nodes
      BY <1>1, LeaveCount, Zenon
    <2> HIDE DEF q
    <2> QED
      BY Zenon, <1>1, <1>2, <2>1, <2>2, LeaveNodes
  <1>4. \A n \in Nodes :
          /\ ns[n] \in NodeRecord
          /\ Healthy(nodes[n]) => Healthy(ns[n])
          /\ ns[n].run_job_cnt = nodes[n].run_job_cnt
          /\ ns[n].sus_job_cnt = nodes[n].sus_job_cnt
          /\ ns[n].comp_job_cnt = IF n \in lost THEN Decr(nodes[n].comp_job_cnt)
                                  ELSE nodes[n].comp_job_cnt
    <2> SUFFICES ASSUME NEW n \in Nodes
                 PROVE  /\ ns[n] \in NodeRecord
                        /\ Healthy(nodes[n]) => Healthy(ns[n])
                        /\ ns[n].run_job_cnt = nodes[n].run_job_cnt
                        /\ ns[n].sus_job_cnt = nodes[n].sus_job_cnt
                        /\ ns[n].comp_job_cnt = IF n \in lost THEN Decr(nodes[n].comp_job_cnt)
                                                ELSE nodes[n].comp_job_cnt
      BY Zenon
    <2> DEFINE d == nodes[n]
               e == [d EXCEPT !.comp_job_cnt = Decr(@)]
    <2>1. d \in NodeRecord
      BY Zenon
    <2>2. e \in NodeRecord /\ (Healthy(d) => Healthy(e))
      BY <2>1, LeavePhaseType, HealthyKept, Zenon
    <2>3. /\ e.run_job_cnt = d.run_job_cnt /\ e.sus_job_cnt = d.sus_job_cnt
          /\ e.comp_job_cnt = Decr(d.comp_job_cnt)
      BY Zenon, <2>1 DEF NodeRecord
    <2>4. ns[n] = IF n \in lost THEN e ELSE d
      BY Zenon
    <2> HIDE DEF d, e, ns
    <2> QED
      BY Zenon, <2>1, <2>2, <2>3, <2>4 DEF d
  <1>5. ns \in [Nodes -> NodeRecord]
    BY Zenon, <1>4
  <1> HIDE DEF q, ns
  <1>6. StepOK(j, r, q, nodes, ns)
    BY ZenonT(30), <1>1, <1>2, <1>3, <1>4, <1>5, StepLeaves
  <1>7. StepOK(j, r, CleanupRequeue(j, q), nodes, CleanupRequeueNodes(j, q, ns))
    <2> DEFINE c == CleanupRequeue(j, q)
               ms == CleanupRequeueNodes(j, q, ns)
    <2>1. /\ c \in JobRecord /\ JobOK(c) /\ ExpeditingOK(j, c)
          /\ c.state \notin Active /\ CgSet(c) = CgSet(q) /\ Quiet(ns, ms)
      BY Zenon, <1>2, <1>3, <1>5, CleanupRequeueFacts
    <2> HIDE DEF c, ms
    <2>2. \A n \in Nodes :
            /\ Healthy(nodes[n]) => Healthy(ms[n])
            /\ ms[n].run_job_cnt = nodes[n].run_job_cnt
            /\ ms[n].sus_job_cnt = nodes[n].sus_job_cnt
            /\ Expedited = {} =>
                 ms[n].comp_job_cnt = IF n \in lost THEN Decr(nodes[n].comp_job_cnt)
                                      ELSE nodes[n].comp_job_cnt
      BY Zenon, <1>4, <2>1 DEF Quiet
    <2>3. CgSet(c) = CgSet(r) \ lost /\ ms \in [Nodes -> NodeRecord]
      BY Zenon, <1>3, <2>1 DEF Quiet
    <2>4. StepOK(j, r, c, nodes, ms)
      BY <1>1, <2>1, <2>2, <2>3, StepLeaves, Zenon
    <2> QED
      BY Zenon, <2>4 DEF c, ms
  <1> QED
    BY Zenon, <1>3, <1>6, <1>7 DEF q, ns, lost

\* A job that waits for node n counts it.
LEMMA LeaveOne ==
  ASSUME Counting, NEW r \in JobRecord, JobOK(r), Completing(r), NEW n \in r.node_bitmap_cg
  PROVE  /\ Cardinality({n}) = 1 /\ r.node_cnt > 0 /\ r.node_cnt \in Nat
         /\ Decr(r.node_cnt) = r.node_cnt - 1
         /\ r.node_bitmap_cg \ {n} \in Bitmaps /\ r.node_cnt - 1 \in Nat
  <1>1. Cardinality({n}) = 1
    <2>1. n \in Nodes
      BY Zenon, NullAssumption DEF Completing, JobOK, JobRecord, Bitmaps
    <2> QED
      BY Zenon, <2>1 DEF Counting
  <1>2. /\ r.node_bitmap_cg \ {n} \in Bitmaps
        /\ r.node_cnt - Cardinality({n}) = Cardinality(r.node_bitmap_cg \ {n})
        /\ Cardinality(r.node_bitmap_cg \ {n}) \in Nat
    BY Zenon, LeaveCount
  <1>3. r.node_cnt \in Nat
    BY Zenon DEF JobRecord
  <1> QED
    BY SMTT(30), <1>1, <1>2, <1>3 DEF Decr

\* The scan after a node failure finds a job that completes there.
LEMMA StepScanCompleting ==
  ASSUME Counting, NEW j \in Jobs, NEW r \in JobRecord, JobOK(r), ExpeditingOK(j, r), Completing(r),
         NEW nodes \in [Nodes -> NodeRecord], NEW n \in r.node_bitmap_cg
  PROVE  LET q == [r EXCEPT !.node_bitmap_cg = @ \ {n}, !.node_cnt = Decr(@)]
             ms == CleanupRequeueNodes(j, q, nodes)
         IN StepOK(j, r, CleanupRequeue(j, q), nodes, [ms EXCEPT ![n].comp_job_cnt = Decr(@)])
  <1> DEFINE left == r.node_bitmap_cg \ {n}
             cnt == Decr(r.node_cnt)
             q == [r EXCEPT !.node_bitmap_cg = left, !.node_cnt = cnt]
             c == CleanupRequeue(j, q)
             ms == CleanupRequeueNodes(j, q, nodes)
             ns == [ms EXCEPT ![n].comp_job_cnt = Decr(@)]
  <1>1. left \in Bitmaps /\ cnt \in Nat /\ cnt = r.node_cnt - Cardinality({n})
    BY LeaveOne, Zenon
  <1>2. {n} \in SUBSET r.node_bitmap_cg /\ n \in Nodes
    BY Zenon, NullBitmap DEF JobOK, JobRecord
  <1>3. q \in JobRecord
    <2> HIDE DEF left, cnt
    <2> QED BY <1>1, Zenon DEF JobRecord
  <1>4. /\ Waiting(q) /\ Completing(q) /\ CgSet(q) = CgSet(r) \ {n} /\ ExpeditingOK(j, q)
    <2>1. /\ q.node_bitmap_cg = left /\ q.node_cnt = cnt
          /\ q.state = r.state /\ q.flags = r.flags /\ q.node_bitmap = r.node_bitmap
      BY Zenon DEF JobRecord
    <2> HIDE DEF q, cnt
    <2> QED
      BY Zenon, <1>1, <1>2, <1>3, <2>1, LeaveNodes
  <1> HIDE DEF q
  <1>5. /\ c \in JobRecord /\ JobOK(c) /\ ExpeditingOK(j, c)
        /\ c.state \notin Active /\ CgSet(c) = CgSet(q) /\ Quiet(nodes, ms)
    BY Zenon, <1>3, <1>4, CleanupRequeueFacts
  <1> HIDE DEF c, ms
  <1>6. ms \in [Nodes -> NodeRecord]
    BY Zenon, <1>5 DEF Quiet
  <1> DEFINE e == [ms[n] EXCEPT !.comp_job_cnt = Decr(@)]
  <1>7. /\ e \in NodeRecord /\ (Healthy(ms[n]) => Healthy(e))
    BY <1>2, <1>6, LeavePhaseType, HealthyKept, Zenon
  <1>8. /\ e.run_job_cnt = ms[n].run_job_cnt /\ e.sus_job_cnt = ms[n].sus_job_cnt
        /\ e.comp_job_cnt = Decr(ms[n].comp_job_cnt)
    BY Zenon, <1>2, <1>6 DEF NodeRecord
  <1>9. ns = [ms EXCEPT ![n] = e]
    BY Zenon, <1>2, <1>6
  <1> HIDE DEF e, ns
  <1>10. \A i \in Nodes : ns[i] = IF i = n THEN e ELSE ms[i]
    BY Zenon, <1>2, <1>6, <1>9
  <1>11. ns \in [Nodes -> NodeRecord]
    BY Zenon, <1>2, <1>6, <1>7, <1>9
  <1>12. \A i \in Nodes :
           /\ Healthy(nodes[i]) => Healthy(ns[i])
           /\ ns[i].run_job_cnt = nodes[i].run_job_cnt
           /\ ns[i].sus_job_cnt = nodes[i].sus_job_cnt
           /\ Expedited = {} =>
                ns[i].comp_job_cnt = IF i \in {n} THEN Decr(nodes[i].comp_job_cnt)
                                     ELSE nodes[i].comp_job_cnt
    BY Zenon, <1>5, <1>7, <1>8, <1>10 DEF Quiet
  <1>13. CgSet(c) = CgSet(r) \ {n}
    BY Zenon, <1>4, <1>5
  <1>14. StepOK(j, r, c, nodes, ns)
    BY <1>2, <1>5, <1>11, <1>12, <1>13, StepLeaves, Zenon
  <1> QED
    BY Zenon, <1>14 DEF c, ns, ms, q

\* A change of the nodes that no counter sees may follow a step.
LEMMA StepQuiet ==
  ASSUME NEW j, NEW r, NEW q, NEW nodes, NEW ns, NEW ms,
         StepOK(j, r, q, nodes, ns), Quiet(ns, ms)
  PROVE  StepOK(j, r, q, nodes, ms)
  BY Zenon DEF StepOK, Quiet, Moves

\* batch_requeue_fini() after a step that may have ended the completion
LEMMA StepFini ==
  ASSUME NEW j \in Jobs, NEW r, NEW q, NEW nodes, NEW ns, StepOK(j, r, q, nodes, ns)
  PROVE  StepOK(j, r, BatchRequeueFini(j, q), nodes, ExpediteRelease(q, ns))
  <1> DEFINE b == BatchRequeueFini(j, q)
  <1>1. q \in JobRecord /\ JobOK(q) /\ ExpeditingOK(j, q) /\ ns \in [Nodes -> NodeRecord]
    BY Zenon DEF StepOK
  <1>2. StepOK(j, r, b, nodes, ns)
    <2>1. CASE q.state \in Active
      <3>1. b = q
        BY Zenon, <2>1 DEF BatchRequeueFini, Active
      <3> QED
        BY Zenon, <3>1
    <2>2. CASE q.state \notin Active
      <3>1. /\ b \in JobRecord /\ JobOK(b) /\ ExpeditingOK(j, b)
            /\ b.state = q.state /\ CgSet(b) = CgSet(q)
        BY Zenon, <1>1, <2>2, FinishRequeue
      <3> QED
        BY Zenon, <2>2, <3>1, StepSame
    <2> QED
      BY Zenon, <2>1, <2>2
  <1>3. Quiet(ns, ExpediteRelease(q, ns))
    BY Zenon, <1>1, ExpediteReleaseFacts
  <1> QED
    BY Zenon, <1>2, <1>3, StepQuiet

\* job_epilog_complete() on the job
LEMMA NodeEpilogDoneFacts ==
  ASSUME Counting, NEW j \in Jobs, NEW r \in JobRecord, JobOK(r), ExpeditingOK(j, r), Completing(r),
         NEW n \in r.node_bitmap_cg
  PROVE  LET q == NodeEpilogDone(j, r, n)
         IN /\ q \in JobRecord /\ JobOK(q) /\ ExpeditingOK(j, q) /\ q.state \notin Active
            /\ CgSet(q) = CgSet(r) \ {n}
  <1> DEFINE left == r.node_bitmap_cg \ {n}
             cnt == r.node_cnt - 1
             p == [r EXCEPT !.node_bitmap_cg = left, !.node_cnt = cnt]
             q == CleanupCompleting(j, p)
  <1>1. left \in Bitmaps /\ cnt \in Nat /\ cnt = r.node_cnt - Cardinality({n}) /\ r.node_cnt > 0
    BY LeaveOne, Zenon
  <1>2. NodeEpilogDone(j, r, n) = q
    BY Zenon, <1>1 DEF NodeEpilogDone
  <1>3. p \in JobRecord
    <2> HIDE DEF left, cnt
    <2> QED BY <1>1, Zenon DEF JobRecord
  <1>4. /\ Waiting(p) /\ Completing(p) /\ CgSet(p) = CgSet(r) \ {n} /\ ExpeditingOK(j, p)
    <2>1. /\ p.node_bitmap_cg = left /\ p.node_cnt = cnt
          /\ p.state = r.state /\ p.flags = r.flags /\ p.node_bitmap = r.node_bitmap
      BY Zenon DEF JobRecord
    <2>2. {n} \in SUBSET r.node_bitmap_cg
      BY Zenon
    <2> HIDE DEF p, cnt
    <2> QED
      BY Zenon, <1>1, <1>3, <2>1, <2>2, LeaveNodes
  <1> HIDE DEF p
  <1>5. /\ q \in JobRecord /\ Settled(q) /\ SameNodes(p, q)
        /\ Completing(q) <=> Completing(p) /\ ~AllQuiet(p)
        /\ ExpeditingOK(j, p) => ExpeditingOK(j, q)
    BY <1>3, <1>4, CleanupCompletingFacts, Zenon
  <1> HIDE DEF q
  <1>6. CgSet(q) = CgSet(p) /\ (AllQuiet(q) <=> AllQuiet(p))
    BY Zenon, <1>5 DEF SameNodes, CgSet, AllQuiet
  <1>7. JobOK(q) /\ q.state \notin Active
    BY Zenon, <1>4, <1>5, <1>6, SettledOK
  <1> QED
    BY Zenon, <1>2, <1>4, <1>5, <1>6, <1>7

\* One node of the table changes.
LEMMA NodesExcept ==
  ASSUME NEW nodes \in [Nodes -> NodeRecord], NEW n \in Nodes, NEW e \in NodeRecord
  PROVE  /\ [nodes EXCEPT ![n] = e] \in [Nodes -> NodeRecord]
         /\ \A i \in Nodes : [nodes EXCEPT ![n] = e][i] = IF i = n THEN e ELSE nodes[i]
  BY Zenon

\* job_epilog_complete()
LEMMA StepNodeEpilog ==
  ASSUME Counting, NEW j \in Jobs, NEW r \in JobRecord, JobOK(r), ExpeditingOK(j, r), ~EpilogIgnored(r),
         NEW n \in Nodes, NEW nodes \in [Nodes -> NodeRecord], NEW d \in NodeRecord,
         Healthy(nodes[n]) => Healthy(d), SameCounts(nodes[n], d)
  PROVE  LET q == NodeEpilogDone(j, r, n)
         IN StepOK(j, r, q, nodes,
                   [nodes EXCEPT ![n] = MakeNodeIdle(d, n \in r.node_bitmap_cg, q.state,
                                                     Expediting(q), j \in OwnerExclusive)])
  <1> DEFINE q == NodeEpilogDone(j, r, n)
             fresh == n \in r.node_bitmap_cg
             phase == q.state
             x == Expediting(q)
             own == j \in OwnerExclusive
             e == MakeNodeIdle(d, fresh, phase, x, own)
             ns == [nodes EXCEPT ![n] = e]
  <1>1. fresh \in BOOLEAN /\ x \in BOOLEAN /\ own \in BOOLEAN
    BY SMTT(30) DEF Expediting
  <1>2. q \in JobRecord /\ JobOK(q) /\ ExpeditingOK(j, q)
        /\ \/ ~fresh /\ q = r
           \/ fresh /\ Completing(r) /\ q.state \notin Active /\ CgSet(q) = CgSet(r) \ {n}
    <2>1. CASE ~fresh
      BY Zenon, <2>1 DEF NodeEpilogDone
    <2>2. CASE fresh
      <3>1. Completing(r)
        BY Zenon, <2>2 DEF EpilogIgnored, JobOK
      <3> QED
        BY Zenon, <2>2, <3>1, NodeEpilogDoneFacts
    <2> QED
      BY Zenon, <2>1, <2>2
  <1>3. Expedited = {} => ~x
    BY Zenon, <1>2 DEF ExpeditingOK
  <1>4. fresh => phase \notin {"RUNNING", "SUSPENDED"}
    BY Zenon, <1>2 DEF Active
  <1>5. fresh => {n} \in SUBSET r.node_bitmap_cg
    BY Zenon
  <1> HIDE DEF fresh, phase, x, own, q
  <1>6. e \in NodeRecord /\ (Healthy(d) => Healthy(e))
    BY <1>1, MakeNodeIdleType, HealthyIdle, Zenon
  <1>7. /\ e.run_job_cnt = (IF fresh /\ phase = "RUNNING" THEN Decr(d.run_job_cnt) ELSE d.run_job_cnt)
        /\ e.sus_job_cnt = (IF fresh /\ phase = "SUSPENDED" THEN Decr(d.sus_job_cnt) ELSE d.sus_job_cnt)
        /\ e.comp_job_cnt = (IF fresh /\ phase \notin {"RUNNING", "SUSPENDED"} /\ ~x
                             THEN Decr(d.comp_job_cnt) ELSE d.comp_job_cnt)
    BY SMTT(30), <1>1, IdleCounts
  <1> HIDE DEF e
  <1>8. /\ e.run_job_cnt = nodes[n].run_job_cnt /\ e.sus_job_cnt = nodes[n].sus_job_cnt
        /\ Expedited = {} =>
             e.comp_job_cnt = IF fresh THEN Decr(nodes[n].comp_job_cnt) ELSE nodes[n].comp_job_cnt
    BY Zenon, <1>3, <1>4, <1>7 DEF SameCounts
  <1>9. ns \in [Nodes -> NodeRecord] /\ \A i \in Nodes : ns[i] = IF i = n THEN e ELSE nodes[i]
    BY Zenon, <1>6, NodesExcept
  <1> HIDE DEF ns
  <1>10. \A i \in Nodes : Healthy(nodes[i]) => Healthy(ns[i])
    BY Zenon, <1>6, <1>9
  <1>11. CASE fresh
    <2>1. \A i \in Nodes :
            /\ Healthy(nodes[i]) => Healthy(ns[i])
            /\ ns[i].run_job_cnt = nodes[i].run_job_cnt
            /\ ns[i].sus_job_cnt = nodes[i].sus_job_cnt
            /\ Expedited = {} =>
                 ns[i].comp_job_cnt = IF i \in {n} THEN Decr(nodes[i].comp_job_cnt)
                                      ELSE nodes[i].comp_job_cnt
      BY Zenon, <1>8, <1>9, <1>10, <1>11
    <2>2. StepOK(j, r, q, nodes, ns)
      BY <1>2, <1>5, <1>9, <1>11, <2>1, StepLeaves, Zenon
    <2> QED
      BY Zenon, <2>2 DEF ns, e, q, fresh, phase, x, own
  <1>12. CASE ~fresh
    <2>1. StepOK(j, r, q, nodes, nodes)
      BY Zenon, <1>2, <1>12, StepJobOnly
    <2>2. Quiet(nodes, ns)
      BY Zenon, <1>8, <1>9, <1>10, <1>12 DEF Quiet
    <2>3. StepOK(j, r, q, nodes, ns)
      BY Zenon, <2>1, <2>2, StepQuiet
    <2> QED
      BY Zenon, <2>3 DEF ns, e, q, fresh, phase, x, own
  <1> QED
    BY ZenonT(30), <1>11, <1>12

\* The old record may differ in ways the nodes do not see.
LEMMA StepFrom ==
  ASSUME NEW j, NEW r, NEW o, NEW q, NEW nodes, NEW ns, StepOK(j, r, q, nodes, ns), SameJob(o, r)
  PROVE  StepOK(j, o, q, nodes, ns)
  <1>1. \A n \in Nodes : /\ RunsOn(r, n) = RunsOn(o, n) /\ SuspendedAt(r, n) = SuspendedAt(o, n)
    BY Zenon DEF RunsOn, SuspendedAt, OnNode, SameJob, SameNodes
  <1>2. CgSet(r) = CgSet(o)
    BY Zenon DEF CgSet, SameJob, SameNodes
  <1> QED
    BY Zenon, <1>1, <1>2 DEF StepOK, Moves, Counts

\* _slurm_rpc_epilog_complete(): r is the job with the failure of its epilog
\* noted, d the node, drained if its epilog failed.
LEMMA StepEpilogComplete ==
  ASSUME Counting, NEW j \in Jobs, NEW o \in JobRecord, JobOK(o), ExpeditingOK(j, o), ~EpilogIgnored(o),
         NEW r \in JobRecord, SameJob(o, r),
         NEW n \in Nodes, NEW nodes \in [Nodes -> NodeRecord], NEW d \in NodeRecord,
         Healthy(nodes[n]) => Healthy(d), SameCounts(nodes[n], d)
  PROVE  LET q == NodeEpilogDone(j, r, n)
             ns == [nodes EXCEPT ![n] = MakeNodeIdle(d, n \in r.node_bitmap_cg, q.state,
                                                     Expediting(q), j \in OwnerExclusive)]
         IN /\ StepOK(j, o, q, nodes, ns)
            /\ StepOK(j, o, BatchRequeueFini(j, q), nodes, ExpediteRelease(q, ns))
  <1> DEFINE q == NodeEpilogDone(j, r, n)
             ns == [nodes EXCEPT ![n] = MakeNodeIdle(d, n \in r.node_bitmap_cg, q.state,
                                                     Expediting(q), j \in OwnerExclusive)]
  <1>1. JobOK(r) /\ ExpeditingOK(j, r)
    BY Zenon, SameJobFacts
  <1>2. ~EpilogIgnored(r)
    BY Zenon DEF EpilogIgnored, SameJob, SameNodes, Completing
  <1>3. StepOK(j, r, q, nodes, ns)
    BY <1>1, <1>2, StepNodeEpilog, Zenon
  <1> HIDE DEF q, ns
  <1>4. StepOK(j, r, BatchRequeueFini(j, q), nodes, ExpediteRelease(q, ns))
    BY Zenon, <1>3, StepFini
  <1>5. /\ StepOK(j, o, q, nodes, ns)
        /\ StepOK(j, o, BatchRequeueFini(j, q), nodes, ExpediteRelease(q, ns))
    BY Zenon, <1>3, <1>4, StepFrom
  <1> QED
    BY Zenon, <1>5 DEF ns, q

\* The scan requeues a batch job that ran on the failed node.
LEMMA StepScanRequeues ==
  ASSUME Counting, NEW j \in Jobs, NEW r \in JobRecord, JobOK(r), r.state \in Active,
         NEW nodes \in [Nodes -> NodeRecord]
  PROVE  LET q == BuildCgBitmap([JobStateSet(r, "NODE_FAIL", {}) EXCEPT !.exit_code = "signal"])
             t == SetRequeuedJobPendingCompleting(DeallocateJob(j, q, nodes))
             x == j \in Expedited
             s == [t EXCEPT !.exit_code = "zero",
                            !.flags = IF x THEN @ \cup {"EXPEDITING"} ELSE @,
                            !.epilog_failed = @ \/ x]
             ns == DeallocateNodes(j, q, nodes, r.state = "SUSPENDED")
         IN /\ q \in JobRecord /\ q.node_bitmap_cg \in SUBSET Nodes
            /\ s.state = "PENDING" /\ CgSet(s) = EndCg(r, nodes)
            /\ StepOK(j, r, s, nodes, ns)
            /\ StepOK(j, r, BatchRequeueFini(j, s), nodes, ExpediteRelease(s, ns))
  <1> DEFINE a == JobStateSet(r, "NODE_FAIL", {})
             b == [a EXCEPT !.exit_code = "signal"]
             q == BuildCgBitmap(b)
             u == DeallocateJob(j, q, nodes)
             t == SetRequeuedJobPendingCompleting(u)
             x == j \in Expedited
             flags == IF x THEN t.flags \cup {"EXPEDITING"} ELSE t.flags
             failed == t.epilog_failed \/ x
             s == [t EXCEPT !.exit_code = "zero", !.flags = flags, !.epilog_failed = failed]
             ns == DeallocateNodes(j, q, nodes, r.state = "SUSPENDED")
             p == Ending(r, "NODE_FAIL", r.exit_code)
  <1>1. /\ "NODE_FAIL" \in JobBase \ Active /\ "NODE_FAIL" \in JobBase /\ {} \in SUBSET JobFlags
        /\ "signal" \in ExitCodes /\ "zero" \in ExitCodes /\ "PENDING" \notin Active
    BY Zenon DEF JobBase, Finished, Active, ExitCodes
  <1>2. a \in JobRecord /\ a.state = "NODE_FAIL" /\ a.flags = {} /\ SameNodes(r, a)
    BY SMTT(30), <1>1, JobStateSetFacts
  <1> HIDE DEF a
  <1>3. b \in JobRecord
    BY <1>1, <1>2, Zenon DEF JobRecord
  <1>4. b.state = "NODE_FAIL" /\ b.flags = {} /\ SameNodes(r, b)
    BY Zenon, <1>2 DEF JobRecord, SameNodes
  <1> HIDE DEF b
  <1>5. /\ q \in JobRecord /\ q.node_bitmap = b.node_bitmap
        /\ q.node_bitmap_cg \in SUBSET Nodes /\ q.node_bitmap_cg # NULL
        /\ b.node_bitmap # NULL => q.node_bitmap_cg = b.node_bitmap
        /\ q.flags = IF q.node_bitmap_cg = {} THEN b.flags \ {"COMPLETING"} ELSE b.flags
        /\ q.state = b.state /\ q.node_cnt = b.node_cnt /\ q.prolog_running = b.prolog_running
    BY <1>3, BuildCgBitmapFacts, Zenon
  <1> HIDE DEF q
  <1>6. /\ Waiting(q) /\ q.state = "NODE_FAIL" /\ ExpeditingOK(j, q)
        /\ q.node_bitmap_cg = r.node_bitmap /\ q.prolog_running = r.prolog_running
    BY Zenon, <1>1, <1>4, <1>5 DEF JobOK, Waiting, SameNodes, ExpeditingOK, Expediting
  <1>7. /\ u \in JobRecord /\ Settled(u)
        /\ CgSet(u) = IF q.prolog_running THEN {} ELSE q.node_bitmap_cg \ DownNodes(nodes)
        /\ ExpeditingOK(j, q) => ExpeditingOK(j, u)
    <2>1. q.state # "PENDING"
      BY Zenon, <1>6
    <2> QED
      BY SMTT(30), <1>5, <1>6, <2>1, DeallocateJobFacts
  <1>8. CgSet(u) = EndCg(r, nodes) /\ ExpeditingOK(j, u)
    BY Zenon, <1>6, <1>7 DEF EndCg
  <1> HIDE DEF u
  <1>9. /\ t \in JobRecord /\ t.state = "PENDING" /\ SameNodes(u, t)
        /\ JobOK(t) /\ ExpeditingOK(j, t)
    BY Zenon, <1>7, <1>8, SetRequeuedFacts
  <1> HIDE DEF t
  <1>10. /\ flags \in SUBSET JobFlags
         /\ "COMPLETING" \in flags <=> "COMPLETING" \in t.flags
         /\ "EXPEDITING" \in flags => x \/ "EXPEDITING" \in t.flags
    BY Zenon, <1>9 DEF JobRecord, JobFlags
  <1>11. failed \in BOOLEAN
    BY Zenon
  <1> HIDE DEF flags, failed
  <1>12. s \in JobRecord
    BY <1>1, <1>9, <1>10, <1>11, Zenon DEF JobRecord
  <1>13. s.state = "PENDING" /\ s.flags = flags /\ SameNodes(t, s)
    BY Zenon, <1>9 DEF JobRecord, SameNodes
  <1> HIDE DEF s
  <1>14. JobOK(s) /\ ExpeditingOK(j, s) /\ CgSet(s) = EndCg(r, nodes) /\ s.state \notin Active
    BY Zenon, <1>1, <1>8, <1>9, <1>10, <1>13
       DEF JobOK, SameNodes, Completing, ExpeditingOK, Expediting, CgSet
  <1>15. ns = EndNodes(j, r, "NODE_FAIL", nodes)
    <2>1. r.exit_code \in ExitCodes
      BY Zenon DEF JobRecord
    <2>2. /\ p.state = "NODE_FAIL" /\ p.node_bitmap_cg = r.node_bitmap
          /\ p.prolog_running = r.prolog_running
      BY SMTT(30), <1>1, <2>1, EndingFacts
    <2>3. EndNodes(j, r, "NODE_FAIL", nodes) = DeallocateNodes(j, p, nodes, r.state = "SUSPENDED")
      BY Zenon DEF EndNodes
    <2> HIDE DEF p
    <2> QED
      BY <1>6, <2>2, <2>3, Zenon DEF DeallocateNodes
  <1> HIDE DEF ns
  <1>16. StepOK(j, r, s, nodes, ns)
    BY Zenon, <1>1, <1>12, <1>14, <1>15, StepEnds
  <1>17. StepOK(j, r, BatchRequeueFini(j, s), nodes, ExpediteRelease(s, ns))
    BY Zenon, <1>16, StepFini
  <1> QED
    BY Zenon, <1>5, <1>13, <1>14, <1>16, <1>17 DEF ns, s, flags, failed, t, u, q, b, a

-----------------------------------------------------------------------------
(* Start, suspend, resume and the loss of one node of an allocation.       *)

\* excise_node_from_job()
LEMMA StepExcise ==
  ASSUME Counting, NEW j \in Jobs, NEW r \in JobRecord, JobOK(r), ExpeditingOK(j, r), r.state \in Active,
         NEW n \in Nodes, OnNode(r, n), r.node_cnt > 1, NEW nodes \in [Nodes -> NodeRecord]
  PROVE  LET left == ExcisedBitmap(r, n)
             fresh == r.node_bitmap_cg = NULL \/ n \in r.node_bitmap_cg
         IN StepOK(j, r, [r EXCEPT !.node_bitmap = left, !.node_cnt = Cardinality(left)], nodes,
                   [nodes EXCEPT ![n] = MakeNodeIdle(@, fresh, r.state, FALSE, j \in OwnerExclusive)])
  <1> DEFINE left == ExcisedBitmap(r, n)
             cnt == Cardinality(left)
             fresh == r.node_bitmap_cg = NULL \/ n \in r.node_bitmap_cg
             q == [r EXCEPT !.node_bitmap = left, !.node_cnt = cnt]
             no == FALSE
             own == j \in OwnerExclusive
             phase == r.state
             d == nodes[n]
             e == MakeNodeIdle(d, fresh, phase, no, own)
             ns == [nodes EXCEPT ![n] = e]
  <1>1. /\ r.node_bitmap \in SUBSET Nodes /\ r.node_bitmap # NULL /\ n \in r.node_bitmap
        /\ r.node_cnt = Cardinality(r.node_bitmap) /\ r.node_bitmap_cg \in {NULL, {}}
        /\ ~Completing(r) /\ CgSet(r) = {}
    BY Zenon, NullBitmap DEF JobOK, JobRecord, OnNode, CgSet
  <1>2. fresh <=> r.node_bitmap_cg = NULL
    BY Zenon, <1>1
  <1>3. left = IF fresh THEN r.node_bitmap \ {n} ELSE r.node_bitmap
    BY Zenon, <1>2 DEF ExcisedBitmap
  <1>4. /\ left \in SUBSET Nodes /\ left \in Bitmaps /\ left # NULL /\ left # {} /\ cnt \in Nat
        /\ \A i \in Nodes : i \in left <=> i \in r.node_bitmap /\ ~(fresh /\ i = n)
    <2>1. left \in SUBSET Nodes /\ \A i \in Nodes : i \in left <=> i \in r.node_bitmap /\ ~(fresh /\ i = n)
      BY Zenon, <1>1, <1>3
    <2>2. left # {}
      <3>1. Cardinality({n}) = 1 /\ {n} \in SUBSET r.node_bitmap
        BY <1>1, Zenon DEF Counting
      <3>2. Cardinality(r.node_bitmap \ {n}) = Cardinality(r.node_bitmap) - 1
        BY Zenon, <1>1, <3>1, NodeSetDifference
      <3>3. Cardinality(r.node_bitmap) \in Nat /\ Cardinality(r.node_bitmap \ {n}) # 0
        BY SMTT(30), <1>1, <3>2, NodeSets
      <3> QED
        BY Zenon, <1>1, <1>3, <3>3, NodeSetEmpty
    <2> QED
      BY Zenon, <2>1, <2>2, NodeSets, NullAssumption DEF Bitmaps
  <1>5. fresh \in BOOLEAN /\ no \in BOOLEAN /\ own \in BOOLEAN /\ d \in NodeRecord
    <2>1. fresh \in BOOLEAN /\ no \in BOOLEAN
      BY Zenon
    <2>2. own \in BOOLEAN /\ d \in NodeRecord
      BY SMTT(30)
    <2> QED
      BY Zenon, <2>1, <2>2
  <1>6. ns = [nodes EXCEPT ![n] = MakeNodeIdle(@, fresh, r.state, FALSE, j \in OwnerExclusive)]
    BY Zenon
  <1> HIDE DEF left, cnt, fresh, no, own
  <1>7. q \in JobRecord
    BY <1>4, Zenon DEF JobRecord
  <1>8. /\ q.state = r.state /\ q.flags = r.flags /\ q.node_bitmap = left
        /\ q.node_bitmap_cg = r.node_bitmap_cg /\ q.node_cnt = cnt
    BY Zenon DEF JobRecord
  <1> HIDE DEF q
  <1>9. JobOK(q) /\ ExpeditingOK(j, q) /\ CgSet(q) = {}
    BY Zenon, <1>1, <1>4, <1>8 DEF JobOK, ExpeditingOK, Expediting, Completing, CgSet, cnt
  <1>10. e \in NodeRecord /\ (Healthy(d) => Healthy(e))
    BY <1>5, MakeNodeIdleType, HealthyIdle, Zenon
  <1>11. /\ e.run_job_cnt = (IF fresh /\ phase = "RUNNING" THEN Decr(d.run_job_cnt) ELSE d.run_job_cnt)
         /\ e.sus_job_cnt = (IF fresh /\ phase = "SUSPENDED" THEN Decr(d.sus_job_cnt) ELSE d.sus_job_cnt)
         /\ e.comp_job_cnt = (IF fresh /\ phase \notin {"RUNNING", "SUSPENDED"} /\ ~no
                              THEN Decr(d.comp_job_cnt) ELSE d.comp_job_cnt)
    BY SMTT(30), <1>5, IdleCounts
  <1>12. e.comp_job_cnt = d.comp_job_cnt
    BY Zenon, <1>11 DEF Active
  <1> HIDE DEF e
  <1>13. ns \in [Nodes -> NodeRecord] /\ \A i \in Nodes : ns[i] = IF i = n THEN e ELSE nodes[i]
    BY Zenon, <1>10, NodesExcept
  <1> HIDE DEF ns
  <1>14. \A i \in Nodes : Healthy(nodes[i]) => Healthy(ns[i])
    BY Zenon, <1>10, <1>13
  <1>15. ASSUME NEW i \in Nodes, Counts(r, nodes[i], i) PROVE Moves(r, q, nodes[i], ns[i], i)
    <2>1. /\ RunsOn(q, i) <=> RunsOn(r, i) /\ ~(fresh /\ i = n)
          /\ SuspendedAt(q, i) <=> SuspendedAt(r, i) /\ ~(fresh /\ i = n)
          /\ RunsOn(r, n) <=> phase = "RUNNING"
          /\ SuspendedAt(r, n) <=> phase = "SUSPENDED"
          /\ i \notin CgSet(q) /\ i \notin CgSet(r)
      BY Zenon, <1>1, <1>4, <1>8, <1>9 DEF RunsOn, SuspendedAt, OnNode
    <2>2. nodes[i] \in NodeRecord
      BY Zenon
    <2> HIDE DEF phase
    <2>3. CASE i # n
      BY Zenon, <1>13, <2>1, <2>2, <2>3 DEF Moves, Bit
    <2>4. CASE i = n
      BY SMTT(30), <1>11, <1>12, <1>13, <1>15, <2>1, <2>2, <2>4, CounterType DEF Moves, Counts, Decr, Bit
    <2> QED
      BY Zenon, <2>3, <2>4
  <1>16. StepOK(j, r, q, nodes, ns)
    BY Zenon, <1>7, <1>9, <1>13, <1>14, <1>15 DEF StepOK
  <1> QED
    BY Zenon, <1>6, <1>16 DEF q, left, cnt, fresh

\* select_nodes() and allocate_nodes()
LEMMA StepStart ==
  ASSUME Counting, NEW j \in Jobs, NEW o \in JobRecord, JobOK(o), Runnable(o),
         NEW ns \in SUBSET Nodes, Cardinality(ns) = NodesReq[j],
         NEW nodes \in [Nodes -> NodeRecord]
  PROVE  StepOK(j, o, StartJob(o, ns), nodes, AllocateNodes(j, ns, nodes))
  <1> DEFINE flags == IF PrologSlurmctld THEN {"CONFIGURING"} ELSE {}
             a == JobStateSet(o, "RUNNING", flags)
             cnt == Cardinality(ns)
             launched == ~PrologSlurmctld
             q == [a EXCEPT !.node_bitmap = ns, !.node_cnt = cnt,
                            !.prolog_running = PrologSlurmctld,
                            !.exit_code = "zero", !.launched = launched]
             excl == j \in Exclusive
             own == j \in OwnerExclusive
             e(n) == MakeNodeAlloc(nodes[n], excl, own, User[j])
             ms == [n \in Nodes |-> IF n \in ns THEN e(n) ELSE nodes[n]]
  <1>1. /\ flags \in SUBSET JobFlags /\ "RUNNING" \in JobBase /\ "zero" \in ExitCodes
        /\ "COMPLETING" \notin flags /\ "EXPEDITING" \notin flags
        /\ PrologSlurmctld \in BOOLEAN
    BY Zenon, ParamAssumption DEF JobFlags, JobBase, Active, ExitCodes
  <1>2. launched \in BOOLEAN
    BY Zenon
  <1>3. cnt \in Nat /\ ns # {} /\ ns \in Bitmaps /\ ns # NULL
    <2>1. NodesReq[j] \in Nat \ {0}
      BY Zenon, SetAssumption
    <2> QED
      BY Zenon, <2>1, NodeSetEmpty, NullAssumption DEF Bitmaps
  <1> HIDE DEF flags, cnt, launched
  <1>4. a \in JobRecord /\ a.state = "RUNNING" /\ a.flags = flags /\ SameNodes(o, a)
    BY SMTT(30), <1>1, JobStateSetFacts
  <1> HIDE DEF a
  <1>5. q \in JobRecord
    BY <1>1, <1>2, <1>3, <1>4, Zenon DEF JobRecord
  <1>6. /\ q.state = "RUNNING" /\ q.flags = flags /\ q.node_bitmap = ns
        /\ q.node_cnt = cnt /\ q.node_bitmap_cg = o.node_bitmap_cg
    BY Zenon, <1>4 DEF JobRecord, SameNodes
  <1> HIDE DEF q
  <1>7. o.state = "PENDING" /\ o.node_bitmap_cg \in {NULL, {}} /\ CgSet(o) = {}
    BY Zenon DEF Runnable, JobOK, Active, CgSet
  <1>8. JobOK(q) /\ ExpeditingOK(j, q) /\ CgSet(q) = {}
    BY Zenon, <1>1, <1>3, <1>6, <1>7 DEF JobOK, ExpeditingOK, Expediting, Completing, Active, CgSet, cnt
  <1>9. ASSUME NEW n \in Nodes
        PROVE  /\ e(n) \in NodeRecord /\ (Healthy(nodes[n]) => Healthy(e(n)))
               /\ e(n).run_job_cnt = nodes[n].run_job_cnt + 1
               /\ e(n).sus_job_cnt = nodes[n].sus_job_cnt
               /\ e(n).comp_job_cnt = nodes[n].comp_job_cnt
    <2>1. nodes[n] \in NodeRecord /\ excl \in BOOLEAN /\ own \in BOOLEAN
      BY SMTT(30)
    <2>2. User[j] \in Users
      BY Zenon, SetAssumption
    <2> HIDE DEF excl, own
    <2>3. e(n) \in NodeRecord /\ (Healthy(nodes[n]) => Healthy(e(n)))
      BY <2>1, <2>2, MakeNodeAllocType, HealthyAlloc, Zenon
    <2> QED
      BY SMTT(30), <2>1, <2>3, AllocCounts
  <1> HIDE DEF e
  <1>10. /\ ms \in [Nodes -> NodeRecord]
         /\ \A n \in Nodes : ms[n] = IF n \in ns THEN e(n) ELSE nodes[n]
    BY Zenon, <1>9
  <1> HIDE DEF ms
  <1>11. \A n \in Nodes : Healthy(nodes[n]) => Healthy(ms[n])
    BY Zenon, <1>9, <1>10
  <1>12. ASSUME NEW n \in Nodes PROVE Moves(o, q, nodes[n], ms[n], n)
    <2>1. /\ RunsOn(q, n) <=> n \in ns
          /\ ~RunsOn(o, n) /\ ~SuspendedAt(o, n) /\ ~SuspendedAt(q, n)
          /\ n \notin CgSet(o) /\ n \notin CgSet(q)
      BY Zenon, <1>3, <1>6, <1>7, <1>8 DEF RunsOn, SuspendedAt, OnNode
    <2>2. nodes[n] \in NodeRecord
      BY Zenon
    <2> QED
      BY SMTT(30), <1>9, <1>10, <2>1, <2>2, CounterType DEF Moves, Bit
  <1>13. StepOK(j, o, q, nodes, ms)
    BY Zenon, <1>5, <1>8, <1>10, <1>11, <1>12 DEF StepOK
  <1> QED
    BY Zenon, <1>13 DEF ms, e, q, a, flags, cnt, launched, StartJob, AllocateNodes

\* _job_suspend_op() on the job: the allocation stays.
LEMMA SuspendFacts ==
  ASSUME NEW j \in Jobs, NEW r \in JobRecord, JobOK(r), r.state \in Active,
         NEW state \in Active, NEW held \in BOOLEAN
  PROVE  LET q == [JobStateSet(r, state, {}) EXCEPT !.held = held]
         IN /\ q \in JobRecord /\ JobOK(q) /\ ExpeditingOK(j, q)
            /\ q.state = state /\ q.node_bitmap = r.node_bitmap
            /\ CgSet(q) = {} /\ CgSet(r) = {}
  <1> DEFINE a == JobStateSet(r, state, {})
             q == [a EXCEPT !.held = held]
  <1>0. state \in JobBase /\ {} \in SUBSET JobFlags
    BY Zenon DEF JobBase
  <1>1. a \in JobRecord /\ a.state = state /\ a.flags = {} /\ SameNodes(r, a)
    BY SMTT(30), <1>0, JobStateSetFacts
  <1> HIDE DEF a
  <1>2. q \in JobRecord
    BY <1>1, Zenon DEF JobRecord
  <1>3. q.state = state /\ q.flags = {} /\ SameNodes(r, q)
    BY Zenon, <1>1 DEF JobRecord, SameNodes
  <1> HIDE DEF q
  <1>4. JobOK(q) /\ ExpeditingOK(j, q) /\ CgSet(q) = {} /\ CgSet(r) = {}
    BY Zenon, <1>3 DEF JobOK, ExpeditingOK, Expediting, Completing, CgSet, SameNodes
  <1> QED
    BY Zenon, <1>2, <1>3, <1>4 DEF q, a, SameNodes

\* scontrol suspend
LEMMA StepSuspend ==
  ASSUME NEW j \in Jobs, NEW r \in JobRecord, JobOK(r), r.state = "RUNNING",
         NEW nodes \in [Nodes -> NodeRecord]
  PROVE  StepOK(j, r, SuspendJob(r), nodes,
                [n \in Nodes |-> IF OnNode(r, n) THEN SuspendJobNode(nodes[n], j \in Exclusive)
                                 ELSE nodes[n]])
  <1> DEFINE yes == TRUE
             to == "SUSPENDED"
             q == [JobStateSet(r, to, {}) EXCEPT !.held = yes]
             excl == j \in Exclusive
             e(n) == SuspendJobNode(nodes[n], excl)
             ns == [n \in Nodes |-> IF OnNode(r, n) THEN e(n) ELSE nodes[n]]
  <1>1. SuspendJob(r) = q
    BY Zenon DEF SuspendJob
  <1>2. r.state \in Active /\ to \in Active /\ to = "SUSPENDED"
    BY Zenon DEF Active
  <1>3. yes \in BOOLEAN
    BY Zenon
  <1> HIDE DEF yes, to
  <1>4. /\ q \in JobRecord /\ JobOK(q) /\ ExpeditingOK(j, q)
        /\ q.state = to /\ q.node_bitmap = r.node_bitmap
        /\ CgSet(q) = {} /\ CgSet(r) = {}
    BY SMTT(30), <1>2, <1>3, SuspendFacts
  <1> HIDE DEF q
  <1>5. ASSUME NEW n \in Nodes
        PROVE  /\ e(n) \in NodeRecord /\ (Healthy(nodes[n]) => Healthy(e(n)))
               /\ e(n).run_job_cnt = Decr(nodes[n].run_job_cnt)
               /\ e(n).sus_job_cnt = nodes[n].sus_job_cnt + 1
               /\ e(n).comp_job_cnt = nodes[n].comp_job_cnt
    <2>1. nodes[n] \in NodeRecord /\ excl \in BOOLEAN
      OBVIOUS
    <2> HIDE DEF excl
    <2>2. e(n) \in NodeRecord /\ (Healthy(nodes[n]) => Healthy(e(n)))
      BY <2>1, SuspendJobNodeType, HealthyKept, Zenon
    <2> QED
      BY Zenon, <2>1, <2>2, SuspendCounts
  <1> HIDE DEF e
  <1>6. /\ ns \in [Nodes -> NodeRecord]
        /\ \A n \in Nodes : ns[n] = IF OnNode(r, n) THEN e(n) ELSE nodes[n]
    BY Zenon, <1>5
  <1> HIDE DEF ns
  <1>7. \A n \in Nodes : Healthy(nodes[n]) => Healthy(ns[n])
    BY Zenon, <1>5, <1>6
  <1>8. ASSUME NEW n \in Nodes, Counts(r, nodes[n], n) PROVE Moves(r, q, nodes[n], ns[n], n)
    <2>1. /\ RunsOn(r, n) <=> OnNode(r, n)
          /\ SuspendedAt(q, n) <=> OnNode(r, n)
          /\ ~RunsOn(q, n) /\ ~SuspendedAt(r, n)
          /\ n \notin CgSet(q) /\ n \notin CgSet(r)
      BY Zenon, <1>2, <1>4 DEF RunsOn, SuspendedAt, OnNode
    <2>2. nodes[n] \in NodeRecord
      BY Zenon
    <2> QED
      BY SMTT(30), <1>5, <1>6, <1>8, <2>1, <2>2, CounterType DEF Moves, Counts, Decr, Bit
  <1>9. StepOK(j, r, q, nodes, ns)
    BY Zenon, <1>4, <1>6, <1>7, <1>8 DEF StepOK
  <1> QED
    BY Zenon, <1>1, <1>9 DEF ns, e

\* scontrol resume
LEMMA StepResume ==
  ASSUME NEW j \in Jobs, NEW r \in JobRecord, JobOK(r), r.state = "SUSPENDED",
         NEW nodes \in [Nodes -> NodeRecord]
  PROVE  StepOK(j, r, [JobStateSet(r, "RUNNING", {}) EXCEPT !.held = FALSE], nodes,
                [n \in Nodes |-> IF OnNode(r, n) THEN ResumeJobNode(nodes[n], j \in Exclusive)
                                 ELSE nodes[n]])
  <1> DEFINE no == FALSE
             to == "RUNNING"
             q == [JobStateSet(r, to, {}) EXCEPT !.held = no]
             excl == j \in Exclusive
             e(n) == ResumeJobNode(nodes[n], excl)
             ns == [n \in Nodes |-> IF OnNode(r, n) THEN e(n) ELSE nodes[n]]
  <1>1. [JobStateSet(r, "RUNNING", {}) EXCEPT !.held = FALSE] = q
    BY Zenon
  <1>2. r.state \in Active /\ to \in Active /\ to = "RUNNING"
    BY Zenon DEF Active
  <1>3. no \in BOOLEAN
    BY Zenon
  <1> HIDE DEF no, to
  <1>4. /\ q \in JobRecord /\ JobOK(q) /\ ExpeditingOK(j, q)
        /\ q.state = to /\ q.node_bitmap = r.node_bitmap
        /\ CgSet(q) = {} /\ CgSet(r) = {}
    BY SMTT(30), <1>2, <1>3, SuspendFacts
  <1> HIDE DEF q
  <1>5. ASSUME NEW n \in Nodes
        PROVE  /\ e(n) \in NodeRecord /\ (Healthy(nodes[n]) => Healthy(e(n)))
               /\ e(n).run_job_cnt = nodes[n].run_job_cnt + 1
               /\ e(n).sus_job_cnt = Decr(nodes[n].sus_job_cnt)
               /\ e(n).comp_job_cnt = nodes[n].comp_job_cnt
    <2>1. nodes[n] \in NodeRecord /\ excl \in BOOLEAN
      OBVIOUS
    <2> HIDE DEF excl
    <2>2. e(n) \in NodeRecord /\ (Healthy(nodes[n]) => Healthy(e(n)))
      BY <2>1, ResumeJobNodeType, HealthyAlloc, Zenon
    <2> QED
      BY Zenon, <2>1, <2>2, SuspendCounts
  <1> HIDE DEF e
  <1>6. /\ ns \in [Nodes -> NodeRecord]
        /\ \A n \in Nodes : ns[n] = IF OnNode(r, n) THEN e(n) ELSE nodes[n]
    BY Zenon, <1>5
  <1> HIDE DEF ns
  <1>7. \A n \in Nodes : Healthy(nodes[n]) => Healthy(ns[n])
    BY Zenon, <1>5, <1>6
  <1>8. ASSUME NEW n \in Nodes, Counts(r, nodes[n], n) PROVE Moves(r, q, nodes[n], ns[n], n)
    <2>1. /\ SuspendedAt(r, n) <=> OnNode(r, n)
          /\ RunsOn(q, n) <=> OnNode(r, n)
          /\ ~SuspendedAt(q, n) /\ ~RunsOn(r, n)
          /\ n \notin CgSet(q) /\ n \notin CgSet(r)
      BY Zenon, <1>2, <1>4 DEF RunsOn, SuspendedAt, OnNode
    <2>2. nodes[n] \in NodeRecord
      BY Zenon
    <2> QED
      BY SMTT(30), <1>5, <1>6, <1>8, <2>1, <2>2, CounterType DEF Moves, Counts, Decr, Bit
  <1>9. StepOK(j, r, q, nodes, ns)
    BY Zenon, <1>4, <1>6, <1>7, <1>8 DEF StepOK
  <1> QED
    BY <1>1, <1>9, Zenon DEF ns, e

-----------------------------------------------------------------------------
(* DOWN nodes, and the bitmap of the nodes a job waits for.                *)

\* The node table
AllDown(nodes, ns) == \A n \in Nodes : SameDown(nodes[n], ns[n])

\* What the operations leave of the nodes that are DOWN: they stay DOWN.
LEMMA TableDown ==
  ASSUME NEW nodes \in [Nodes -> NodeRecord], NEW j, NEW r, NEW state, NEW suspended \in BOOLEAN
  PROVE  /\ AllDown(nodes, ExpediteRelease(r, nodes))
         /\ AllDown(nodes, CleanupRequeueNodes(j, r, nodes))
         /\ AllDown(nodes, DeallocateNodes(j, r, nodes, suspended))
         /\ AllDown(nodes, EndNodes(j, r, state, nodes))
         /\ AllDown(nodes, ActiveNodes(j, r, state, nodes))
  <1>1. ASSUME NEW x PROVE AllDown(nodes, ExpediteRelease(x, nodes))
    <2>1. ASSUME NEW n \in Nodes
          PROVE  SameDown(nodes[n], RefreshIdle([nodes[n] EXCEPT !.comp_job_cnt = Decr(@)]))
      <3> DEFINE e == [nodes[n] EXCEPT !.comp_job_cnt = Decr(@)]
      <3>1. e \in NodeRecord
        BY LeavePhaseType, Zenon
      <3>2. SameDown(nodes[n], e)
        BY Zenon, DownKept
      <3> HIDE DEF e
      <3>3. SameDown(e, RefreshIdle(e))
        BY <3>1, DownKept, Zenon
      <3> QED
        BY Zenon, <3>2, <3>3 DEF SameDown, e
    <2> QED
      BY Zenon, <2>1 DEF AllDown, ExpediteRelease, SameDown
  <1>2. AllDown(nodes, CleanupRequeueNodes(j, r, nodes))
    BY Zenon, <1>1 DEF CleanupRequeueNodes, AllDown, SameDown
  <1>3. ASSUME NEW x, NEW s \in BOOLEAN PROVE AllDown(nodes, DeallocateNodes(j, x, nodes, s))
    <2> DEFINE comp(n) == MakeNodeComp(nodes[n], j \in Exclusive, s)
               idle(n) == MakeNodeIdle(comp(n), TRUE, x.state, FALSE, j \in OwnerExclusive)
    <2>1. ASSUME NEW n \in Nodes
          PROVE  SameDown(nodes[n], comp(n)) /\ SameDown(nodes[n], idle(n))
      <3>1. comp(n) \in NodeRecord
        <4>1. (j \in Exclusive) \in BOOLEAN
          BY SMTT(30)
        <4>2. nodes[n] \in NodeRecord
          BY Zenon
        <4> QED
          BY <4>1, <4>2, MakeNodeCompType, Zenon
      <3>2. SameDown(nodes[n], comp(n))
        BY DownKept, Zenon
      <3> HIDE DEF comp
      <3>3. SameDown(comp(n), idle(n))
        BY <3>1, DownIdle, Zenon
      <3> QED
        BY <3>2, <3>3, Zenon DEF SameDown
    <2> HIDE DEF comp, idle
    <2>2. DeallocateNodes(j, x, nodes, s) =
            [n \in Nodes |-> IF n \notin x.node_bitmap_cg THEN nodes[n]
                             ELSE IF x.prolog_running /\ ~IsDown(nodes[n]) THEN idle(n) ELSE comp(n)]
      BY Zenon DEF DeallocateNodes, comp, idle
    <2> QED
      BY Zenon, <2>1, <2>2 DEF AllDown, SameDown
  <1>4. AllDown(nodes, EndNodes(j, r, state, nodes)) /\ AllDown(nodes, DeallocateNodes(j, r, nodes, suspended))
    <2>1. (r.state = "SUSPENDED") \in BOOLEAN
      BY Zenon
    <2> QED
      BY <1>3, <2>1, Zenon DEF EndNodes
  <1> QED
    BY Zenon, <1>1, <1>2, <1>4 DEF ActiveNodes, AllDown, SameDown

\* A record is a record.
LEMMA JobRecordRec == ASSUME NEW r \in JobRecord PROVE Rec(r)
  BY Zenon DEF JobRecord, Rec

\* deallocate_nodes() of a job none of whose nodes is DOWN, or that may not be requeued
LEMMA DeallocateJobFrees ==
  ASSUME Counting, NEW j \in Jobs, NEW r \in JobRecord, Waiting(r), NEW nodes, Requeue \subseteq Batch,
         Completing(r), r.state = "PENDING" => j \in Batch
  PROVE  LET t == DeallocateJob(j, r, nodes)
         IN /\ r.exit_code # "exit" => t.state = r.state
            /\ r.node_bitmap_cg # {} /\ r.node_bitmap_cg \cap DownNodes(nodes) = {} => Freed(j, t)
  <1> DEFINE lost == r.node_bitmap_cg \cap DownNodes(nodes)
             left == r.node_bitmap_cg \ lost
             cnt == r.node_cnt - Cardinality(lost)
             q == [r EXCEPT !.epilog_running = EpilogSlurmctld,
                            !.node_bitmap_cg = left, !.node_cnt = cnt]
             s == CleanupCompleting(j, q)
             u == [s EXCEPT !.node_bitmap_cg = {}, !.node_cnt = 0]
             t == CleanupCompleting(j, u)
             b == BatchRequeueFini(j, t)
  <1>1. DeallocateJob(j, r, nodes) = IF ~r.prolog_running \/ s.node_bitmap_cg = {} THEN s
                                     ELSE IF Completing(t) THEN t ELSE b
    BY Zenon DEF DeallocateJob
  <1>2. r.node_bitmap_cg \in SUBSET Nodes /\ Rec(r)
    BY Zenon, NullBitmap, JobRecordRec DEF Waiting, JobRecord
  <1>3. lost = {} /\ r.node_bitmap_cg # {} => left = r.node_bitmap_cg /\ cnt # 0
    BY SMTT(30), <1>2, NodeSets, NodeSetEmpty DEF Waiting
  <1> HIDE DEF left, cnt
  <1>4. /\ Rec(q) /\ q.state = r.state /\ q.flags = r.flags /\ q.exit_code = r.exit_code
        /\ q.node_bitmap_cg = left /\ q.node_cnt = cnt /\ q.state \notin Active
    BY Zenon, <1>2 DEF Rec, Waiting
  <1> HIDE DEF q
  <1>5. /\ Rec(s) /\ s.state \notin Active /\ s.node_bitmap_cg = left
        /\ ~AllQuiet(q) => s = q
        /\ s.state = q.state \/ (s.state = "PENDING" /\ j \in Requeue /\ q.exit_code = "exit")
    BY <1>4, CleanupCompletingFrees, Zenon
  <1> HIDE DEF s
  <1>6. Stays(q, s) /\ (r.exit_code # "exit" => s.exit_code = q.exit_code)
    <2>1. Stays(q, s)
      BY Zenon, <1>4, CleanupCompletingKeeps DEF s
    <2>2. s.exit_code = q.exit_code
      BY Zenon, <1>4 DEF s, CleanupCompleting, JobHoldRequeue, JobStateSet, Rec
    <2> QED
      BY Zenon, <2>1, <2>2
  <1>7. /\ Rec(u) /\ u.state = s.state /\ u.flags = s.flags /\ u.exit_code = s.exit_code
        /\ u.node_cnt = 0 /\ u.state \notin Active
    BY Zenon, <1>5 DEF Rec
  <1> HIDE DEF u
  <1>8. /\ Rec(t) /\ t.state \notin Active /\ t.epilog_running = u.epilog_running
        /\ ~AllQuiet(u) => t = u
        /\ t.state = u.state \/ (t.state = "PENDING" /\ j \in Requeue /\ u.exit_code = "exit")
    BY <1>7, CleanupCompletingFrees, Zenon
  <1> HIDE DEF t
  <1>9. b.state = t.state
    BY Zenon, <1>8 DEF BatchRequeueFini, Rec
  <1>10. r.exit_code # "exit" => s.state = r.state /\ t.state = r.state /\ b.state = r.state
    BY Zenon, <1>4, <1>5, <1>6, <1>7, <1>8, <1>9
  <1>11. ASSUME r.node_bitmap_cg # {}, lost = {} PROVE Freed(j, DeallocateJob(j, r, nodes))
    <2>1. ~AllQuiet(q) /\ s = q /\ left # {}
      BY Zenon, <1>3, <1>4, <1>5, <1>11 DEF AllQuiet
    <2>2. Completing(s) /\ Completing(u) /\ s.state = r.state
      BY Zenon, <1>4, <1>7, <2>1 DEF Completing
    <2>3. Freed(j, s)
      BY Zenon, <2>2 DEF Freed
    <2>4. t.state = "PENDING" => j \in Batch
      BY Zenon, <1>7, <1>8, <2>2
    <2>5. Completing(t) => Freed(j, t)
      BY Zenon, <2>4 DEF Freed
    <2>6. ~Completing(t) => Freed(j, b)
      <3>1. ~Completing(t) => ~t.epilog_running
        BY Zenon, <1>8, <2>2 DEF AllQuiet
      <3> QED
        BY Zenon, <1>8, <2>4, <3>1, FiniFrees
    <2> HIDE DEF b
    <2> QED
      BY Zenon, <1>1, <2>3, <2>5, <2>6
  <1> HIDE DEF b
  <1> QED
    BY Zenon, <1>1, <1>10, <1>11

\* Every ending
LEMMA EndJobFrees ==
  ASSUME Counting, NEW j \in Jobs, NEW r \in JobRecord, JobOK(r), r.state \in Active,
         NEW state \in JobBase \ Active, NEW code \in ExitCodes, NEW nodes, Requeue \subseteq Batch,
         state = "PENDING" => j \in Batch,
         \/ r.node_bitmap \cap DownNodes(nodes) = {}
         \/ state # "PENDING" /\ code # "exit"
  PROVE  Freed(j, EndJob(j, r, state, code, nodes))
  <1> DEFINE q == Ending(r, state, code)
             t == DeallocateJob(j, q, nodes)
  <1>1. /\ q \in JobRecord /\ Waiting(q) /\ q.state = state /\ q.flags = {"COMPLETING"}
        /\ q.node_bitmap_cg = r.node_bitmap
    BY EndingFacts
  <1>2. q.exit_code = code
    BY Zenon, JobRecordRec DEF Ending, BuildCgBitmap, JobStateSet, Rec
  <1>3. EndJob(j, r, state, code, nodes) = t
    BY Zenon DEF EndJob
  <1> HIDE DEF q
  <1>4. Completing(q) /\ q.node_bitmap_cg # {}
    BY Zenon, <1>1 DEF Completing, JobOK
  <1>5. /\ q.exit_code # "exit" => t.state = q.state
        /\ q.node_bitmap_cg # {} /\ q.node_bitmap_cg \cap DownNodes(nodes) = {} => Freed(j, t)
    BY <1>1, <1>4, DeallocateJobFrees, Zenon
  <1> HIDE DEF t
  <1>6. CASE r.node_bitmap \cap DownNodes(nodes) = {}
    BY Zenon, <1>1, <1>3, <1>4, <1>5, <1>6
  <1>7. CASE state # "PENDING" /\ code # "exit"
    BY Zenon, <1>1, <1>2, <1>3, <1>5, <1>7 DEF Freed
  <1> QED
    BY Zenon, <1>6, <1>7

\* What cleanup_completing() leaves of a completing job
LEMMA CleanupRequeueFrees ==
  ASSUME NEW j, NEW r, Rec(r), r.state \notin Active, Completing(r), Freed(j, r), Requeue \subseteq Batch
  PROVE  LET q == CleanupRequeue(j, r)
         IN Freed(j, q) /\ q.state \notin Active /\ CgSet(q) \subseteq CgSet(r)
  <1> DEFINE c == CleanupCompleting(j, r)
  <1>1. /\ Rec(c) /\ c.state \notin Active /\ c.node_bitmap_cg = r.node_bitmap_cg
        /\ c.epilog_running = r.epilog_running
        /\ AllQuiet(r) => ~Completing(c)
        /\ c.state = r.state \/ (c.state = "PENDING" /\ j \in Requeue /\ r.exit_code = "exit")
    BY CleanupCompletingFrees, Zenon
  <1> HIDE DEF c
  <1>2. c.state = "PENDING" => j \in Batch
    BY Zenon, <1>1 DEF Freed
  <1>3. CASE ~AllQuiet(r)
    BY Zenon, <1>3 DEF CleanupRequeue
  <1>4. CASE AllQuiet(r)
    <2>1. ~c.epilog_running /\ ~Completing(c)
      BY Zenon, <1>1, <1>4 DEF AllQuiet
    <2>2. LET b == BatchRequeueFini(j, c)
          IN Freed(j, b) /\ b.state \notin Active /\ Loses(c, b)
      BY Zenon, <1>1, <1>2, <2>1, FiniFrees
    <2>3. CgSet(c) = CgSet(r)
      BY Zenon, <1>1 DEF CgSet
    <2>4. CleanupRequeue(j, r) = BatchRequeueFini(j, c)
      BY Zenon, <1>4 DEF CleanupRequeue, c
    <2> QED
      BY Zenon, <2>2, <2>3, <2>4 DEF Loses
  <1> QED
    BY Zenon, <1>3, <1>4

\* _job_requeue_op()
LEMMA RequeueJobFrees ==
  ASSUME Counting, NEW j \in Jobs, NEW r \in JobRecord, JobOK(r), j \in Batch, Requeue \subseteq Batch,
         NEW kind, NEW nodes,
         r.state \in Active => r.node_bitmap \cap DownNodes(nodes) = {}
  PROVE  LET q == RequeueJob(j, r, kind, nodes)
         IN /\ Freed(j, q) /\ q.state \notin Active
            /\ \A n \in CgSet(q) : n \in CgSet(r) \/ (r.state \in Active /\ n \in r.node_bitmap)
  <1> DEFINE q == Ending(r, "PENDING", r.exit_code)
             t == DeallocateJob(j, q, nodes)
             p == SetRequeuedJobPendingCompleting(t)
             s == RequeueHold(p, kind)
             a == JobStateSet(r, "PENDING", {})
             c == BuildCgBitmap(a)
             f == SetRequeuedJobPendingCompleting(c)
             h == RequeueHold(f, kind)
             k == JobStateSet(r, "PENDING", r.flags)
             l == RequeueHold(k, kind)
             Goal(x) == /\ Freed(j, x) /\ x.state \notin Active
                        /\ \A n \in CgSet(x) : n \in CgSet(r) \/ (r.state \in Active /\ n \in r.node_bitmap)
  <1>1. "PENDING" \notin Active /\ "PENDING" \in JobBase /\ r.exit_code \in ExitCodes
        /\ r.flags \in SUBSET JobFlags /\ {} \in SUBSET JobFlags
    BY Zenon DEF Active, JobBase, JobRecord
  <1>2. CASE Completing(r)
    <2>1. RequeueJob(j, r, kind, nodes) = l
      BY <1>2, Zenon DEF RequeueJob, RequeueCompleting
    <2>2. k \in JobRecord /\ k.state = "PENDING" /\ k.flags = r.flags /\ SameNodes(r, k)
      BY SMTT(30), <1>1, JobStateSetFacts
    <2> HIDE DEF k
    <2>3. SameJob(k, l)
      BY <2>2, RequeueHoldFacts, Zenon
    <2> HIDE DEF l
    <2>4. Goal(l)
      BY Zenon, <1>1, <1>2, <2>2, <2>3 DEF SameJob, SameNodes, Freed, Completing, CgSet
    <2> HIDE DEF Goal
    <2> QED
      BY Zenon, <2>1, <2>4 DEF Goal
  <1>3. CASE ~Completing(r) /\ r.state \in Active
    <2>1. RequeueJob(j, r, kind, nodes) \in {s, BatchRequeueFini(j, s)}
      BY <1>3, Zenon DEF RequeueJob
    <2>2. /\ q \in JobRecord /\ Waiting(q) /\ q.state = "PENDING" /\ q.flags = {"COMPLETING"}
          /\ q.node_bitmap_cg = r.node_bitmap
      BY SMTT(30), <1>1, <1>3, EndingFacts
    <2> HIDE DEF q
    <2>3. Completing(q) /\ q.node_bitmap_cg # {} /\ q.node_bitmap_cg \cap DownNodes(nodes) = {}
      BY Zenon, <1>3, <2>2 DEF Completing, JobOK
    <2>4. /\ t \in JobRecord /\ Settled(t) /\ t.state \in {q.state, "PENDING"}
          /\ Completing(t) <=> Completing(q) /\ ~AllQuiet(t)
          /\ CgSet(t) = IF q.prolog_running THEN {} ELSE q.node_bitmap_cg \ DownNodes(nodes)
      BY SMTT(30), <2>2, <2>3, DeallocateJobFacts
    <2>5. Freed(j, t)
      BY <2>2, <2>3, DeallocateJobFrees, Zenon
    <2> HIDE DEF t
    <2>6. /\ p \in JobRecord /\ p.state = "PENDING" /\ SameNodes(t, p)
          /\ Completing(p) <=> ~AllQuiet(t)
      BY <2>4, SetRequeuedFacts, Zenon
    <2> HIDE DEF p
    <2>7. s \in JobRecord /\ SameJob(p, s)
      BY <2>6, RequeueHoldFacts, Zenon
    <2> HIDE DEF s
    <2>8. /\ s.state = "PENDING" /\ (Completing(s) <=> Completing(p))
          /\ s.node_bitmap_cg = t.node_bitmap_cg /\ s.epilog_running = t.epilog_running
      BY Zenon, <2>6, <2>7 DEF SameJob, SameNodes, Completing
    <2>9. ~Completing(s) => ~s.epilog_running /\ ~Completing(t)
      BY Zenon, <2>4, <2>6, <2>8 DEF AllQuiet
    <2>10. Freed(j, s)
      BY Zenon, <2>2, <2>4, <2>5, <2>8, <2>9 DEF Freed
    <2>11. \A n \in CgSet(s) : n \in r.node_bitmap
      BY Zenon, <2>2, <2>4, <2>8 DEF CgSet
    <2>12. /\ Freed(j, BatchRequeueFini(j, s)) /\ BatchRequeueFini(j, s).state = "PENDING"
           /\ CgSet(BatchRequeueFini(j, s)) \subseteq CgSet(s)
      <3>1. LET b == BatchRequeueFini(j, s)
            IN /\ Loses(s, b) /\ b.state = s.state
               /\ ~Completing(s) => Freed(j, b)
               /\ Completing(s) => b = s
        BY Zenon, <1>1, <2>7, <2>8, <2>9, JobRecordRec, FiniFrees
      <3> QED
        BY Zenon, <2>8, <2>10, <3>1 DEF Loses
    <2> QED
      BY Zenon, <1>1, <1>3, <2>1, <2>8, <2>10, <2>11, <2>12
  <1>4. CASE ~Completing(r) /\ r.state \notin Active
    <2>1. RequeueJob(j, r, kind, nodes) = BatchRequeueFini(j, h)
      BY <1>4, Zenon DEF RequeueJob
    <2>2. a \in JobRecord /\ a.state = "PENDING" /\ a.flags = {} /\ SameNodes(r, a)
      BY SMTT(30), <1>1, JobStateSetFacts
    <2> HIDE DEF a
    <2>3. /\ Rec(c) /\ c.state = "PENDING" /\ c.node_cnt = a.node_cnt
          /\ c.epilog_running = a.epilog_running /\ c \in JobRecord
      <3>1. Rec(a)
        BY Zenon, <2>2, JobRecordRec
      <3>2. /\ Rec(c) /\ c.state = "PENDING" /\ c.node_cnt = a.node_cnt
            /\ c.epilog_running = a.epilog_running
        BY Zenon, <2>2, <3>1 DEF BuildCgBitmap, Rec
      <3>3. c \in JobRecord
        BY <2>2, BuildCgBitmapFacts, Zenon
      <3> QED
        BY Zenon, <3>2, <3>3
    <2> HIDE DEF c
    <2>4. AllQuiet(c)
      BY Zenon, <1>4, <2>2, <2>3 DEF JobOK, SameNodes, AllQuiet
    <2>5. f \in JobRecord /\ f.state = "PENDING" /\ ~Completing(f) /\ SameNodes(c, f)
      <3> DEFINE flags == (c.flags \cap {"EXPEDITING"}) \cup (IF AllQuiet(c) THEN {} ELSE {"COMPLETING"})
      <3>1. flags \in SUBSET JobFlags /\ "COMPLETING" \notin flags
        BY Zenon, <2>3, <2>4 DEF JobRecord
      <3>2. f = JobStateSet(c, "PENDING", flags)
        BY Zenon DEF SetRequeuedJobPendingCompleting
      <3> HIDE DEF flags, f
      <3> QED
        BY SMTT(30), <1>1, <2>3, <3>1, <3>2, JobStateSetFacts DEF Completing
    <2> HIDE DEF f
    <2>6. h \in JobRecord /\ SameJob(f, h)
      BY <2>5, RequeueHoldFacts, Zenon
    <2> HIDE DEF h
    <2>7. h.state = "PENDING" /\ ~Completing(h) /\ ~h.epilog_running
      BY Zenon, <2>4, <2>5, <2>6 DEF SameJob, SameNodes, Completing, AllQuiet
    <2>8. LET b == BatchRequeueFini(j, h)
          IN b.state = h.state /\ Freed(j, b) /\ ~Completing(b)
      BY Zenon, <1>1, <2>6, <2>7, JobRecordRec, FiniFrees
    <2>9. CgSet(BatchRequeueFini(j, h)) = {}
      BY Zenon, <2>7, <2>8 DEF Freed, CgSet
    <2> QED
      BY Zenon, <1>1, <2>1, <2>7, <2>8, <2>9
  <1> QED
    BY Zenon, <1>2, <1>3, <1>4

\* job_epilog_complete()
LEMMA EpilogFrees ==
  ASSUME NEW j, NEW r, Rec(r), Freed(j, r), Completing(r) \/ r.state \notin Active \cup {"PENDING"},
         r.state \notin Active, r.node_bitmap_cg # NULL, Requeue \subseteq Batch, NEW n
  PROVE  LET q == NodeEpilogDone(j, r, n)
             t == IF Completing(q) THEN q ELSE BatchRequeueFini(j, q)
         IN Freed(j, t) /\ t.state \notin Active /\ CgSet(t) \subseteq CgSet(r)
  <1> DEFINE p == [r EXCEPT !.node_bitmap_cg = @ \ {n}, !.node_cnt = @ - 1]
             q == NodeEpilogDone(j, r, n)
             b == BatchRequeueFini(j, q)
  <1>1. /\ Rec(p) /\ p.state = r.state /\ p.flags = r.flags /\ p.node_bitmap_cg = r.node_bitmap_cg \ {n}
    BY Zenon DEF Rec
  <1>2. /\ Rec(q) /\ q.state \notin Active /\ CgSet(q) \subseteq CgSet(r)
        /\ q.state = "PENDING" => j \in Batch
        /\ ~Completing(q) /\ q.state = "PENDING" => ~q.epilog_running
    <2>1. CASE ~(n \in r.node_bitmap_cg /\ r.node_cnt > 0)
      <3>1. q = r
        BY Zenon, <2>1 DEF NodeEpilogDone
      <3> QED
        BY Zenon, <3>1 DEF Freed
    <2>2. CASE n \in r.node_bitmap_cg /\ r.node_cnt > 0
      <3>1. q = CleanupCompleting(j, p)
        BY Zenon, <2>2 DEF NodeEpilogDone
      <3> HIDE DEF p
      <3>2. LET z == CleanupCompleting(j, p)
            IN /\ Rec(z) /\ z.state \notin Active
               /\ z.node_bitmap_cg = p.node_bitmap_cg
               /\ z.epilog_running = p.epilog_running
               /\ ~AllQuiet(p) => z = p
               /\ AllQuiet(p) => ~Completing(z)
               /\ z.state = p.state \/ (z.state = "PENDING" /\ j \in Requeue /\ p.exit_code = "exit")
        BY SMTT(30), <1>1, CleanupCompletingFrees
      <3> HIDE DEF q
      <3>3. CgSet(p) \subseteq CgSet(r)
        BY Zenon, <1>1 DEF CgSet
      <3>4. CgSet(q) = CgSet(p)
        BY Zenon, <3>1, <3>2 DEF CgSet
      <3>5. q.state = "PENDING" => j \in Batch
        BY Zenon, <1>1, <3>1, <3>2 DEF Freed
      <3>6. ~Completing(q) /\ q.state = "PENDING" => ~q.epilog_running
        BY Zenon, <1>1, <3>1, <3>2 DEF AllQuiet, Completing
      <3> QED
        BY Zenon, <3>1, <3>2, <3>3, <3>4, <3>5, <3>6
    <2> QED
      BY <2>1, <2>2, Zenon
  <1> HIDE DEF q
  <1>3. CASE Completing(q)
    BY Zenon, <1>2, <1>3 DEF Freed, q
  <1>4. CASE ~Completing(q)
    <2>1. Loses(q, b) /\ b.state \notin Active /\ Freed(j, b)
      BY Zenon, <1>2, <1>4, FiniFrees
    <2> HIDE DEF b
    <2> QED
      BY Zenon, <1>2, <1>4, <2>1 DEF Loses, q, b
  <1> QED
    BY Zenon, <1>3, <1>4

-----------------------------------------------------------------------------
(* Suspended jobs stay held and cancelled jobs cancelled.                  *)

\* What a step may do to a job record: only a resume takes the hold from a
\* suspended job, a job becomes suspended held, a prolog runs only if there is
\* one, and a cancelled job whose prolog has ended stays cancelled unless a
\* requeue is asked for.
Moved(r, q, asked) ==
  /\ r.state = "SUSPENDED" /\ r.held => q.held \/ q.state = "RUNNING"
  /\ q.state = "SUSPENDED" => r.state = "SUSPENDED" \/ q.held
  /\ q.state = "SUSPENDED" /\ r.state = "SUSPENDED" /\ r.held => q.held
  /\ q.prolog_running => r.prolog_running \/ PrologSlurmctld
  /\ r.state = "CANCELLED" /\ ~r.prolog_running => q.state = "CANCELLED" \/ asked

Asked(j) == \E kind \in {"plain", "hold", "launch_failed"} : RequeueOp(j, kind)

\* The operations that keep the hold are such moves.
LEMMA KeepsMoved ==
  ASSUME NEW r, NEW q, NEW asked
  PROVE  /\ Stays(r, q) => Moved(r, q, asked)
         /\ Keeps(r, q) /\ (r.state # "CANCELLED" \/ r.prolog_running \/ asked) => Moved(r, q, asked)
  BY Zenon DEF Stays, Keeps, Moved

\* Only the record of job j changes
LEMMA OnlyJob ==
  ASSUME TypeOK, NEW j \in Jobs, NEW q, job' = [job EXCEPT ![j] = q],
         Moved(job[j], q, Asked(j)), NEW i \in Jobs
  PROVE  Moved(job[i], job'[i], Asked(i))
  <1>1. job'[i] = IF i = j THEN q ELSE job[i]
    BY Zenon DEF TypeOK
  <1>2. CASE i = j
    BY Zenon, <1>1, <1>2
  <1>3. CASE i # j
    BY Zenon, <1>1, <1>3 DEF Moved
  <1> QED
    BY Zenon, <1>2, <1>3

\* A job record has its fields.
LEMMA RecordRec ==
  ASSUME TypeOK, NEW j \in Jobs
  PROVE  Rec(job[j])
  <1>1. job[j] \in JobRecord
    BY Zenon DEF TypeOK
  <1> QED
    BY Zenon, <1>1 DEF JobRecord, Rec

\* The actions on one job
LEMMA JobStepMoves ==
  ASSUME TypeOK, NEW j \in Jobs, JobStep(j), NEW i \in Jobs
  PROVE  Moved(job[i], job'[i], Asked(i))
  <1> DEFINE r == job[j]
  <1>1. Rec(r)
    BY Zenon, RecordRec
  <1>2. ASSUME NEW q, NEW ns, NEW sent, Handle(j, q, ns, sent),
               \/ Stays(r, q)
               \/ Keeps(r, q) /\ (r.state # "CANCELLED" \/ r.prolog_running \/ Asked(j))
               \/ Moved(r, q, Asked(j))
        PROVE  Moved(job[i], job'[i], Asked(i))
    <2>1. Moved(r, q, Asked(j))
      BY Zenon, <1>2, KeepsMoved
    <2>2. job' = [job EXCEPT ![j] = q]
      BY Zenon, <1>2 DEF Handle
    <2> QED
      BY <2>1, <2>2, OnlyJob, ZenonT(30)
  <1> DEFINE Goal == Moved(job[i], job'[i], Asked(i))
  <1>3. ASSUME NEW ns \in SUBSET Nodes, Start(j, ns) PROVE Goal
    <2> DEFINE q == StartJob(r, ns)
    <2>1. r.state = "PENDING" /\ Handle(j, q, AllocateNodes(j, ns, node), {})
      BY Zenon, <1>3 DEF Start, Runnable
    <2>2. q.state = "RUNNING" /\ q.prolog_running = PrologSlurmctld
      BY Zenon, <1>1 DEF StartJob, JobStateSet, Rec
    <2> HIDE DEF q
    <2>3. Moved(r, q, Asked(j))
      BY Zenon, <2>1, <2>2 DEF Moved
    <2> QED
      BY Zenon, <1>2, <2>1, <2>3
  <1>4. ASSUME NEW ok \in BOOLEAN, PrologSlurmctldDone(j, ok) PROVE Goal
    <2> DEFINE requeues == ~ok /\ RequeueAllowed(j, r)
               kills    == ~ok /\ ~RequeueAllowed(j, r) /\ ~(j \in Requeue \cap Batch)
               q == CASE requeues -> RequeueJob(j, r, "plain", node)
                      [] kills    -> CancelJob(j, r, node)
                      [] OTHER    -> r
               t == PrologRunningDecr(q)
               ends == (requeues \/ kills) /\ r.state \in Active
               ns == IF ends THEN EndNodes(j, r, "CANCELLED", node) ELSE node
    <2>1. Handle(j, t, ns, {}) /\ r.prolog_running
      BY <1>4, Zenon DEF PrologSlurmctldDone
    <2>2. q \in {RequeueJob(j, r, "plain", node), CancelJob(j, r, node), r}
      BY Zenon
    <2> HIDE DEF q, ns
    <2>3. /\ Keeps(r, RequeueJob(j, r, "plain", node)) /\ Keeps(r, CancelJob(j, r, node))
          /\ Keeps(r, r)
      <3>1. Keeps(r, RequeueJob(j, r, "plain", node))
        BY Zenon, <1>1, RequeueJobKeeps
      <3>2. Keeps(r, CancelJob(j, r, node))
        BY Zenon, <1>1, HandlerKeeps DEF Stays
      <3>3. Keeps(r, r)
        BY Zenon, <1>1 DEF Keeps
      <3> QED
        BY Zenon, <3>1, <3>2, <3>3
    <2>4. Keeps(r, q)
      BY Zenon, <2>2, <2>3
    <2>5. Keeps(r, t)
      BY <2>4, RecordKeeps, ZenonT(30) DEF Stays, Keeps
    <2> HIDE DEF t
    <2> QED
      BY Zenon, <1>2, <2>1, <2>5
  <1>5. CASE Cancel(j)
    BY Zenon, <1>1, <1>2, <1>5, HandlerKeeps DEF Cancel
  <1>6. CASE TimeLimit(j)
    <2>1. Keeps(r, EndJob(j, r, "TIMEOUT", r.exit_code, node)) /\ r.state # "CANCELLED"
      BY Zenon, <1>1, <1>6, EndJobKeeps DEF TimeLimit
    <2> QED
      BY Zenon, <1>2, <1>6, <2>1 DEF TimeLimit
  <1>7. CASE LaunchFailure(j)
    <2>1. Keeps(r, RelaunchJob(j, r, node)) /\ r.state # "CANCELLED"
      BY Zenon, <1>1, <1>7, HandlerKeeps DEF LaunchFailure, Active
    <2> QED
      BY Zenon, <1>2, <1>7, <2>1 DEF LaunchFailure
  <1>8. ASSUME NEW code \in ExitCodes, JobComplete(j, code) PROVE Goal
    BY Zenon, <1>1, <1>2, <1>8, HandlerKeeps DEF JobComplete
  <1>9. ASSUME NEW kind \in {"plain", "hold", "launch_failed"}, RequeueOp(j, kind) PROVE Goal
    <2>1. Asked(j)
      BY Zenon, <1>9 DEF Asked
    <2> QED
      BY <1>1, <1>2, <1>9, <2>1, RequeueJobKeeps, Zenon DEF RequeueOp
  <1>10. CASE Release(j)
    <2> DEFINE q == [r EXCEPT !.held = FALSE]
    <2>1. r.state = "PENDING" /\ Handle(j, q, node, {})
      BY Zenon, <1>10 DEF Release
    <2>2. q.state = "PENDING" /\ q.prolog_running = r.prolog_running
      BY Zenon, <1>1, <2>1 DEF Rec
    <2> HIDE DEF q
    <2>3. Moved(r, q, Asked(j))
      BY Zenon, <2>1, <2>2 DEF Moved
    <2> QED
      BY Zenon, <1>2, <2>1, <2>3
  <1>11. CASE Suspend(j)
    <2> DEFINE q == SuspendJob(r)
               ns == [n \in Nodes |-> IF OnNode(r, n)
                                      THEN SuspendJobNode(node[n], j \in Exclusive) ELSE node[n]]
    <2>1. r.state = "RUNNING" /\ Handle(j, q, ns, {})
      BY Zenon, <1>11 DEF Suspend
    <2>2. q.held /\ q.prolog_running = r.prolog_running
      BY Zenon, <1>1 DEF SuspendJob, JobStateSet, Rec
    <2> HIDE DEF q, ns
    <2>3. Moved(r, q, Asked(j))
      BY Zenon, <2>1, <2>2 DEF Moved
    <2> QED
      BY Zenon, <1>2, <2>1, <2>3
  <1>12. CASE Resume(j)
    <2> DEFINE q == [JobStateSet(r, "RUNNING", {}) EXCEPT !.held = FALSE]
               ns == [n \in Nodes |-> IF OnNode(r, n)
                                      THEN ResumeJobNode(node[n], j \in Exclusive) ELSE node[n]]
    <2>1. r.state = "SUSPENDED" /\ Handle(j, q, ns, {})
      BY Zenon, <1>12 DEF Resume
    <2>2. q.state = "RUNNING" /\ q.prolog_running = r.prolog_running
      BY Zenon, <1>1 DEF JobStateSet, Rec
    <2> HIDE DEF q, ns
    <2>3. Moved(r, q, Asked(j))
      BY Zenon, <2>1, <2>2 DEF Moved
    <2> QED
      BY Zenon, <1>2, <2>1, <2>3
  <1>13. CASE EpilogSlurmctldDone(j)
    <2> DEFINE e == [r EXCEPT !.epilog_running = FALSE]
    <2>1. \/ Handle(j, CleanupRequeue(j, e), CleanupRequeueNodes(j, e, node), {})
          \/ Handle(j, e, node, {})
      BY Zenon, <1>13 DEF EpilogSlurmctldDone
    <2>2. Stays(r, e)
      BY Zenon, <1>1 DEF Stays, Keeps, Rec
    <2> HIDE DEF e
    <2>3. Stays(e, CleanupRequeue(j, e))
      BY SMTT(30), <2>2, HandlerKeeps DEF Stays, Keeps
    <2>4. Stays(r, CleanupRequeue(j, e))
      BY Zenon, <2>2, <2>3 DEF Stays, Keeps
    <2> QED
      BY Zenon, <1>2, <2>1, <2>2, <2>4
  <1>14. CASE ReKillJob(j)
    <2> DEFINE lost == r.node_bitmap_cg \cap DownNodes(node)
               q == [r EXCEPT !.node_bitmap_cg = @ \ lost, !.node_cnt = @ - Cardinality(lost)]
    <2>1. \E ns, sent : Handle(j, CleanupRequeue(j, q), ns, sent) \/ Handle(j, q, ns, sent)
      BY Zenon, <1>14 DEF ReKillJob
    <2>2. Stays(r, q)
      BY Zenon, <1>1 DEF Stays, Keeps, Rec
    <2> HIDE DEF q
    <2>3. Stays(q, CleanupRequeue(j, q))
      BY SMTT(30), <2>2, HandlerKeeps DEF Stays, Keeps
    <2>4. Stays(r, CleanupRequeue(j, q))
      BY Zenon, <2>2, <2>3 DEF Stays, Keeps
    <2> QED
      BY Zenon, <1>2, <2>1, <2>2, <2>4
  <1> QED
    BY Zenon, <1>3, <1>4, <1>5, <1>6, <1>7, <1>8, <1>9, <1>10, <1>11, <1>12, <1>13, <1>14 DEF JobStep

\* The scan after a node failure
LEMMA ScanStepMoves ==
  ASSUME TypeOK, NEW j \in Jobs, ScanStep(j), NEW i \in Jobs
  PROVE  Moved(job[i], job'[i], Asked(i))
  <1> DEFINE r == job[j]
             n == down.node
             Goal == Moved(job[i], job'[i], Asked(i))
  <1>1. Rec(r)
    BY Zenon, RecordRec
  <1>2. ASSUME NEW q, NEW ns, NEW sent, Scan(j, q, ns, sent),
               Stays(r, q) \/ (Keeps(r, q) /\ r.state \in Active)
        PROVE  Moved(job[i], job'[i], Asked(i))
    <2>1. Moved(r, q, Asked(j))
      BY Zenon, <1>2, KeepsMoved DEF Active
    <2>2. job' = [job EXCEPT ![j] = q]
      BY Zenon, <1>2 DEF Scan
    <2> QED
      BY <2>1, <2>2, OnlyJob, Zenon
  <1>3. CASE ScanSkips(j)
    <2>1. Stays(r, r)
      BY Zenon, <1>1 DEF Stays, Keeps
    <2> QED
      BY <1>2, <1>3, <2>1, Zenon DEF ScanSkips
  <1>4. CASE ScanCompleting(j)
    <2> DEFINE q == [r EXCEPT !.node_bitmap_cg = @ \ {n}, !.node_cnt = Decr(@)]
    <2>1. \E ns : Scan(j, CleanupRequeue(j, q), ns, {})
      BY Zenon, <1>4 DEF ScanCompleting
    <2>2. Stays(r, q)
      BY Zenon, <1>1 DEF Stays, Keeps, Rec
    <2> HIDE DEF q
    <2>3. Stays(q, CleanupRequeue(j, q))
      BY SMTT(30), <2>2, HandlerKeeps DEF Stays, Keeps
    <2>4. Stays(r, CleanupRequeue(j, q))
      BY Zenon, <2>2, <2>3 DEF Stays, Keeps
    <2> QED
      BY <1>2, <2>1, <2>4, Zenon
  <1>5. CASE ScanExcises(j)
    <2> DEFINE left == ExcisedBitmap(r, n)
               q == [r EXCEPT !.node_bitmap = left, !.node_cnt = Cardinality(left)]
    <2>1. \E ns : Scan(j, q, ns, {})
      BY Zenon, <1>5 DEF ScanExcises
    <2>2. Stays(r, q)
      BY Zenon, <1>1 DEF Stays, Keeps, Rec
    <2> HIDE DEF q
    <2> QED
      BY <1>2, <2>1, <2>2, Zenon
  <1>6. CASE ScanRequeues(j)
    <2> DEFINE a == JobStateSet(r, "NODE_FAIL", {})
               b == [a EXCEPT !.exit_code = "signal"]
               q == BuildCgBitmap(b)
               d == DeallocateJob(j, q, node)
               t == SetRequeuedJobPendingCompleting(d)
               x == j \in Expedited
               s == [t EXCEPT !.exit_code = "zero",
                              !.flags = IF x THEN @ \cup {"EXPEDITING"} ELSE @,
                              !.epilog_failed = @ \/ x]
    <2>1. /\ r.state \in Active
          /\ \E ns, sent : Scan(j, BatchRequeueFini(j, s), ns, sent) \/ Scan(j, s, ns, sent)
      BY Zenon, <1>6 DEF ScanRequeues, ScanActive
    <2>2. Keeps(r, a)
      BY <1>1, RecordKeeps, Zenon
    <2> HIDE DEF a
    <2>3. Keeps(a, b)
      BY Zenon, <2>2 DEF Keeps, Rec
    <2> HIDE DEF b
    <2>4. Keeps(b, q)
      BY <2>3, RecordKeeps, Zenon DEF Stays, Keeps
    <2> HIDE DEF q
    <2>5. Keeps(q, d)
      BY Zenon, <2>4, DeallocateJobKeeps DEF Stays, Keeps
    <2> HIDE DEF d
    <2>6. Keeps(d, t)
      BY <2>5, RecordKeeps, Zenon DEF Keeps
    <2> HIDE DEF t
    <2>7. Keeps(t, s)
      BY Zenon, <2>6 DEF Keeps, Rec
    <2> HIDE DEF s
    <2>8. Keeps(s, BatchRequeueFini(j, s))
      BY Zenon, <2>7, BatchRequeueFiniKeeps DEF Stays, Keeps
    <2>9. Keeps(r, s)
      BY Zenon, <2>2, <2>3, <2>4, <2>5, <2>6, <2>7 DEF Keeps
    <2>10. Keeps(r, BatchRequeueFini(j, s))
      BY Zenon, <2>8, <2>9 DEF Keeps
    <2> QED
      BY Zenon, <1>2, <2>1, <2>9, <2>10
  <1>7. CASE ScanKills(j)
    <2>1. r.state \in Active /\ Keeps(r, EndJob(j, r, "NODE_FAIL", "signal", node))
      BY Zenon, <1>1, <1>7, EndJobKeeps DEF ScanKills, ScanActive
    <2> QED
      BY Zenon, <1>2, <1>7, <2>1 DEF ScanKills
  <1> QED
    BY Zenon, <1>3, <1>4, <1>5, <1>6, <1>7 DEF ScanStep

\* Every step
LEMMA NextMoves ==
  ASSUME TypeOK, [Next]_vars, NEW i \in Jobs
  PROVE  Moved(job[i], job'[i], Asked(i))
  <1>1. CASE job' = job
    BY Zenon, <1>1 DEF Moved
  <1>2. ASSUME NEW j \in Jobs, JobStep(j) \/ ScanStep(j) PROVE Moved(job[i], job'[i], Asked(i))
    BY Zenon, <1>2, JobStepMoves, ScanStepMoves
  <1>3. ASSUME NEW n \in Nodes, NodeStep(n) PROVE job' = job
    BY Zenon, <1>3 DEF NodeStep, NotResponding, Responding, Register, Drain, UndoDrain, SetNodeDown, NodeEvent
  <1>4. ASSUME NEW m \in msgs, Receive(m) \/ LoseMessage(m) PROVE Moved(job[i], job'[i], Asked(i))
    <2>1. ASSUME NEW again \in BOOLEAN, EpilogComplete(m, again) PROVE Moved(job[i], job'[i], Asked(i))
      <3> DEFINE j == m.job
                 o == job[j]
                 r == [o EXCEPT !.epilog_failed = @ \/ m.rc # 0]
                 q == NodeEpilogDone(j, r, m.node)
                 b == BatchRequeueFini(j, q)
      <3>1. job' = job \/ job' = [job EXCEPT ![j] = q] \/ job' = [job EXCEPT ![j] = b]
        BY Zenon, <2>1 DEF EpilogComplete
      <3>2. j \in Jobs
        BY Zenon DEF TypeOK, Messages
      <3>3. Stays(o, r)
        BY Zenon, <3>2, RecordRec DEF Stays, Keeps, Rec
      <3> HIDE DEF r
      <3>4. Stays(r, q)
        <4>1. Rec(r)
          BY Zenon, <3>3 DEF Stays, Keeps
        <4> QED
          BY <4>1, HandlerKeeps, Zenon
      <3> HIDE DEF q
      <3>5. Stays(q, b)
        BY Zenon, <3>4, BatchRequeueFiniKeeps DEF Stays, Keeps
      <3> HIDE DEF b
      <3>6. Moved(o, q, Asked(j)) /\ Moved(o, b, Asked(j))
        BY Zenon, <3>3, <3>4, <3>5, KeepsMoved DEF Stays, Keeps
      <3> QED
        BY Zenon, <1>1, <3>1, <3>2, <3>6, OnlyJob
    <2> QED
      BY Zenon, <1>1, <1>4, <2>1 DEF Receive, SlurmdTerminateJob, LoseMessage
  <1> QED
    BY Zenon, <1>1, <1>2, <1>3, <1>4 DEF Next, NodeDownDone, vars

=============================================================================
