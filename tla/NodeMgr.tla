------------------------------- MODULE NodeMgr -------------------------------
(***************************************************************************)
(* The node record of slurmctld and the operations of node_mgr.c that move *)
(* it when a job is allocated, suspended, terminated or lost.  Each is a   *)
(* pure operator from a node record to the node record it leaves behind;   *)
(* module JobNode applies them inside the handlers that call them.         *)
(*                                                                         *)
(* A record holds the base state, the flags DRAIN, COMPLETING and          *)
(* NO_RESPOND, the counters of jobs in each phase, the user that owns the  *)
(* node, and this node's bit in the global bitmaps idle, share and avail.  *)
(* The COMPLETING flag and the node's bit in cg_node_bitmap are set and    *)
(* cleared by the same statements everywhere, so one field stands for both.*)
(* FAIL behaves as DRAIN and the power saving states are left out.         *)
(***************************************************************************)
EXTENDS Integers

CONSTANTS NO_VAL,    \* a user id that no user has: the node has no owner
          Users      \* the users that may own a node

NodeBase == {"IDLE", "ALLOCATED", "DOWN"}

NodeRecord ==
  [ base       : NodeBase,
    drain      : BOOLEAN,
    completing : BOOLEAN,
    no_respond : BOOLEAN,
    run_job_cnt      : Nat,
    comp_job_cnt     : Nat,
    sus_job_cnt      : Nat,
    no_share_job_cnt : Nat,
    owner_job_cnt    : Nat,
    owner : Users \cup {NO_VAL},
    idle  : BOOLEAN,
    share : BOOLEAN,
    avail : BOOLEAN ]

\* A node that has registered and has never run a job.
FreshNode ==
  [ base |-> "IDLE", drain |-> FALSE, completing |-> FALSE,
    no_respond |-> FALSE, run_job_cnt |-> 0, comp_job_cnt |-> 0,
    sus_job_cnt |-> 0, no_share_job_cnt |-> 0, owner_job_cnt |-> 0,
    owner |-> NO_VAL, idle |-> TRUE, share |-> TRUE, avail |-> TRUE ]

\* "if (cnt) cnt--; else error(underflow)"
Decr(k) == IF k > 0 THEN k - 1 ELSE 0

IsDown(d) == d.base = "DOWN"

-----------------------------------------------------------------------------
(* excl: the job has share_res = 0; own: it asked for WHOLE_NODE_USER.     *)

\* mutant: the exclusive job leaves the node in share_node_bitmap
MakeNodeAlloc_KeepsShare(d, excl, own, user) ==
  [d EXCEPT !.run_job_cnt = @ + 1, !.idle = FALSE, !.base = "ALLOCATED",
            !.no_share_job_cnt = IF excl THEN @ + 1 ELSE @]

MakeNodeAlloc(d, excl, own, user) ==
  [d EXCEPT !.run_job_cnt = @ + 1,
            !.idle = FALSE,
            !.share = @ /\ ~excl,
            !.no_share_job_cnt = IF excl THEN @ + 1 ELSE @,
            !.owner_job_cnt = IF own THEN @ + 1 ELSE @,
            !.owner = IF own THEN user ELSE @,
            !.base = "ALLOCATED"]

\* The job has ended and the node now runs its epilog.
MakeNodeComp(d, excl, suspended) ==
  LET run     == IF suspended THEN d.run_job_cnt ELSE Decr(d.run_job_cnt)
      comp    == IF IsDown(d) THEN d.comp_job_cnt ELSE d.comp_job_cnt + 1
      leaves  == excl /\ ~suspended
      noShare == IF leaves THEN Decr(d.no_share_job_cnt) ELSE d.no_share_job_cnt
  IN [d EXCEPT !.sus_job_cnt = IF suspended THEN Decr(@) ELSE @,
               !.run_job_cnt = run,
               !.no_share_job_cnt = noShare,
               !.share = @ \/ (leaves /\ noShare = 0),
               !.comp_job_cnt = comp,
               !.completing = @ \/ ~IsDown(d),
               !.idle = @ \/ (run = 0 /\ comp = 0),
               !.base = CASE IsDown(d) -> "DOWN"
                          [] ~IsDown(d) /\ run > 0 -> "ALLOCATED"
                          [] OTHER -> "IDLE"]

\* mutant: a drained node is made available again
RefreshIdle_IgnoresDrain(d) ==
  LET e == [d EXCEPT !.completing = @ /\ d.comp_job_cnt > 0]
  IN IF IsDown(e) THEN e
     ELSE [e EXCEPT !.avail = ~e.no_respond,
                    !.base = IF d.run_job_cnt > 0 THEN "ALLOCATED" ELSE "IDLE",
                    !.idle = @ \/ (d.run_job_cnt = 0 /\ ~e.completing)]

\* mutant: the COMPLETING flag is never cleared
RefreshIdle_KeepsFlag(d) ==
  [d EXCEPT !.base = IF IsDown(d) THEN @
                     ELSE IF d.run_job_cnt > 0 THEN "ALLOCATED" ELSE "IDLE"]

\* The second half of make_node_idle(): recompute state and bitmaps from the
\* counters.  It is all that make_node_idle(node, NULL) does.
RefreshIdle(d) ==
  LET quiet == d.comp_job_cnt = 0
      e == [d EXCEPT !.completing = @ /\ ~quiet,
                     !.owner = IF quiet /\ d.base = "IDLE" THEN NO_VAL ELSE @]
      empty == d.run_job_cnt = 0 /\ quiet
  IN IF IsDown(e) THEN e
     ELSE [e EXCEPT
             !.avail = ~e.drain /\ ~e.no_respond,
             !.base = CASE e.drain -> (IF empty THEN "IDLE" ELSE @)
                        [] ~e.drain /\ d.run_job_cnt > 0 -> "ALLOCATED"
                        [] OTHER -> "IDLE",
             !.idle = @ \/ IF e.drain THEN empty
                           ELSE /\ d.run_job_cnt = 0
                                /\ ~e.no_respond /\ ~e.completing]

\* The counter of the phase the job is in loses the job (first visit only).
LeavePhase(d, phase, expediting) ==
  CASE phase = "SUSPENDED" -> [d EXCEPT !.sus_job_cnt = Decr(@)]
    [] phase = "RUNNING"   -> [d EXCEPT !.run_job_cnt = Decr(@)]
    [] OTHER -> IF expediting THEN d ELSE [d EXCEPT !.comp_job_cnt = Decr(@)]

\* The "fini" label of make_node_idle(), reached by every call.
OwnerFini(d, own) ==
  IF own /\ d.owner_job_cnt > 0
  THEN [d EXCEPT !.owner_job_cnt = @ - 1,
                 !.owner = IF d.owner_job_cnt = 1 THEN NO_VAL ELSE @]
  ELSE d

\* mutant: a replay is counted like the first epilog message
MakeNodeIdle_CountsReplay(d, fresh, phase, expediting, own) ==
  OwnerFini(RefreshIdle(LeavePhase(d, phase, expediting)), own)

\* fresh: the node's bit was still set in the job's bitmap ("Not a replay").
MakeNodeIdle(d, fresh, phase, expediting, own) ==
  LET e == IF fresh THEN LeavePhase(d, phase, expediting) ELSE d
      more == /\ fresh
              /\ phase \notin {"RUNNING", "SUSPENDED"}
              /\ e.comp_job_cnt > 0
  IN OwnerFini(IF more THEN e ELSE RefreshIdle(e), own)

\* mutant: the COMPLETING flag survives the failure of the node
MakeNodeDown_KeepsFlag(d) ==
  [d EXCEPT !.avail = FALSE, !.idle = TRUE, !.share = TRUE, !.base = "DOWN"]

\* _make_node_down() with _make_node_unavail(): the counters are kept.
MakeNodeDown(d) ==
  [d EXCEPT !.completing = FALSE, !.avail = FALSE, !.idle = TRUE,
            !.share = TRUE, !.base = "DOWN", !.owner = NO_VAL]

SyncBitmaps(d, jobCount) ==
  [d EXCEPT !.idle = @ \/ jobCount = 0,
            !.share = @ \/ jobCount = 0,
            !.avail = ~IsDown(d) /\ ~d.drain /\ ~d.no_respond]

DrainNode(d) == [d EXCEPT !.drain = TRUE, !.avail = IF d.drain THEN @ ELSE FALSE]

-----------------------------------------------------------------------------
(* Suspend, resume, and the events of the node itself.                     *)

SuspendJobNode(d, excl) ==
  LET run     == Decr(d.run_job_cnt)
      noShare == IF excl THEN Decr(d.no_share_job_cnt) ELSE d.no_share_job_cnt
  IN [d EXCEPT !.sus_job_cnt = @ + 1,
               !.run_job_cnt = run,
               !.no_share_job_cnt = noShare,
               !.share = @ \/ (excl /\ noShare = 0),
               !.idle = @ \/ (run = 0 /\ d.comp_job_cnt = 0),
               !.base = CASE IsDown(d) -> "DOWN"
                          [] ~IsDown(d) /\ run > 0 -> "ALLOCATED"
                          [] OTHER -> "IDLE"]

ResumeJobNode(d, excl) ==
  [d EXCEPT !.sus_job_cnt = Decr(@),
            !.run_job_cnt = @ + 1,
            !.no_share_job_cnt = IF excl THEN @ + 1 ELSE @,
            !.share = @ /\ ~excl,
            !.idle = FALSE,
            !.base = "ALLOCATED"]

NodeNotResp(d) ==
  IF d.no_respond THEN d ELSE [d EXCEPT !.no_respond = TRUE, !.avail = FALSE]

\* returns: ReturnToService lets a DOWN node that answers back into service.
NodeDidResp(d, returns) ==
  LET e == [d EXCEPT !.no_respond = FALSE,
                     !.base = IF IsDown(d) /\ returns THEN "IDLE" ELSE @]
      free == e.base = "IDLE" /\ ~e.completing
  IN [e EXCEPT !.idle = @ \/ free,
               !.share = @ \/ free,
               !.avail = ~IsDown(e) /\ ~e.drain]

\* scontrol update State=RESUME of a DOWN or DRAIN node: _require_node_reg()
\* makes it NO_RESPOND, so it is not available before it answers.
ResumeNode(d) ==
  LET base == IF IsDown(d) THEN "IDLE" ELSE d.base
  IN [d EXCEPT !.drain = FALSE, !.no_respond = TRUE,
               !.base = base, !.idle = base = "IDLE"]

\* The accepting branch of validate_node_specs(), after validate_jobs_on_node()
\* has set the job count to what the controller's own counters say.
ValidateNodeSpecs(d, returns) ==
  LET jobs == d.run_job_cnt + d.comp_job_cnt
      e == [d EXCEPT !.no_respond = FALSE]
      f == CASE IsDown(e) /\ returns ->
                  [e EXCEPT !.base = IF jobs > 0 THEN "ALLOCATED" ELSE "IDLE"]
             [] e.base = "ALLOCATED" /\ jobs = 0 -> [e EXCEPT !.base = "IDLE"]
             [] e.base # "ALLOCATED" /\ ~IsDown(e) /\ e.completing /\ jobs = 0 ->
                  [e EXCEPT !.completing = FALSE]
             [] e.base = "IDLE" /\ jobs # 0 ->
                  [e EXCEPT !.base = IF e.run_job_cnt # 0 THEN "ALLOCATED" ELSE @,
                            !.completing = @ \/ e.comp_job_cnt # 0]
             [] OTHER -> e
      g == [f EXCEPT !.owner = IF f.base = "IDLE" THEN NO_VAL ELSE @]
  IN SyncBitmaps(g, jobs)
=============================================================================
