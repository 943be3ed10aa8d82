--------------------------- MODULE RecoveryProofs ---------------------------
(***************************************************************************)
(* What is proved of Recovery, for any number of jobs, nodes, messages and *)
(* faults: SLUIDs name one job each (SluidInv); a job that                 *)
(* validate_jobs_on_node() takes for missing does not run (MissingInv);    *)
(* the types (TypeInv); an orderly shutdown saves every job (StopInv); no  *)
(* job runs twice until slurmctld crashes (OnceInv).                       *)
(***************************************************************************)
EXTENDS Recovery, TLAPS

-----------------------------------------------------------------------------
(* What the state is made of.                                              *)

\* save is a record of these fields
SaveRec == save = [jobs |-> save.jobs, at |-> save.at, buffer |-> save.buffer]

\* A job record whose nodes are known while it runs or completes.
GoodRecord == {r \in JobRecord : r.state = "RUNNING" \/ r.cg => r.node # NULL}
Table == [Ids -> GoodRecord \cup {NULL}]
Image(f) == f.seq \in 1 .. MaxJobId /\ f.jobs \in Table
Slurmd == [steps : SUBSET Stepd, active : SUBSET Ids, creds : SUBSET Cred]

\* What TypeOK says, with the images of the state save thread, slurmd as a
\* function and the settings of the case.
SaveType ==
  /\ SaveRec /\ save.jobs \in BOOLEAN /\ save.at \in {"idle", "header", "moved"}
  /\ save.buffer = NULL \/ save.buffer.seq \in 1 .. MaxJobId
  /\ save.at # "idle" => save.buffer.seq \in 1 .. MaxJobId
  /\ save.at = "moved" => save.buffer.jobs \in Table
CtldType ==
  /\ ctld \in {"up", "stopping", "stopped", "dead"}
  /\ jobs \in Table /\ seq \in 1 .. MaxJobId
  /\ SaveType
  /\ file # NULL => Image(file)
  /\ late \subseteq Ids
CaseType ==
  /\ DOMAIN case = Bounds \cup {"requeue", "nodes"}
  /\ case.requeue \in BOOLEAN /\ case.nodes \subseteq Nodes
TypeInv ==
  /\ CtldType /\ CaseType
  /\ slurmd \in [Nodes -> Slurmd]
  /\ net \subseteq Message
  /\ clock \in Nat /\ sluids \in Nat /\ crashed \in BOOLEAN

\* An entry of a registration names the SLUID of its slurmstepd.
LEMMA PairFacts == \A a, b : <<a, b>>[1] = a /\ <<a, b>>[2] = b
  BY SMT

\* The fields of each kind of message.
LEMMA RequestFields ==
  ASSUME NEW m \in Message
  PROVE  /\ m.node \in Nodes
         /\ m.type = "LAUNCH" =>
              /\ m \in [type : {"LAUNCH"}, id : Ids, node : Nodes, sluid : Nat,
                        ctime : Nat, dead : BOOLEAN]
              /\ m.id \in Ids /\ m.sluid \in Nat /\ m.ctime \in Nat /\ m.dead \in BOOLEAN
         /\ m.type \in KillTypes =>
              /\ m \in [type : KillTypes, id : Ids, node : Nodes, sluid : Nat, time : Nat,
                        start : Nat, begun : BOOLEAN]
              /\ m.id \in Ids /\ m.sluid \in Nat /\ m.time \in Nat /\ m.start \in Nat
              /\ m.begun \in BOOLEAN
         /\ m.type \in {"REFUSED", "REQUEUE", "EPILOG"} => m.sluid \in Nat
         /\ m.type = "REGISTRATION" => m.steps \subseteq Ids \X Nat
BY Zenon DEF Message, KillTypes

\* A report to slurmctld is a message.
LEMMA ReportTyped ==
  ASSUME NEW m \in Message, m.type \in KillTypes \cup {"LAUNCH"},
         NEW type \in {"REFUSED", "REQUEUE", "EPILOG"}
  PROVE  Report(type, m) \in Message
<1>1. m.node \in Nodes /\ m.sluid \in Nat
  BY Zenon, RequestFields
<1> QED BY Zenon, <1>1 DEF Report, Message

\* The ids that get_next_job_id() tries.
LEMMA CandidateTyped ==
  ASSUME seq \in 1 .. MaxJobId, NEW k \in 0 .. (MaxJobId - 2)
  PROVE  Candidate(k) \in Ids
<1> DEFINE first == IF seq >= MaxJobId THEN 1 ELSE seq
<1>1. MaxJobId \in Nat /\ MaxJobId > 1
  BY Zenon, RecoveryAssumption
<1>2. first - 1 + k \in Nat /\ MaxJobId - 1 \in Nat /\ MaxJobId - 1 > 0
  BY <1>1
<1>3. (first - 1 + k) % (MaxJobId - 1) \in 0 .. (MaxJobId - 2)
  BY <1>1, <1>2
<1> QED BY <1>1, <1>3 DEF Candidate, Ids

\* The SLUIDs that requeues take are none or one.
LEMMA CountTyped ==
  ASSUME NEW S
  PROVE  /\ NewSluids(S) \in Nat
         /\ S # {} => NewSluids(S) = 1
BY Zenon DEF NewSluids

\* What slurmd does to its steps and credentials keeps them typed.
LEMMA SlurmdTypes ==
  ASSUME NEW d \in Slurmd
  PROVE  /\ \A s, t : Reissued(d, s, t) \in Slurmd
         /\ \A id : Killed(d, id) \in Slurmd
         /\ \A m : Cleaned(d, m) \in Slurmd
         /\ \A m : (m.sluid \in Nat /\ m.time \in Nat) => Revoked(d, m) \in Slurmd
         /\ \A m : (m.id \in Ids /\ m.sluid \in Nat) => Launched(d, m) \in Slurmd
         /\ \A S \in SUBSET Stepd : [d EXCEPT !.steps = S] \in Slurmd
<1>1. ASSUME NEW s, NEW t PROVE Reissued(d, s, t) \in Slurmd
  BY Zenon DEF Reissued, Slurmd
<1>2. ASSUME NEW id PROVE Killed(d, id) \in Slurmd
  <2> DEFINE S == {IF p.id = id THEN [p EXCEPT !.over = TRUE] ELSE p : p \in d.steps}
  <2>1. ASSUME NEW p \in d.steps
        PROVE  (IF p.id = id THEN [p EXCEPT !.over = TRUE] ELSE p) \in Stepd
    BY Zenon DEF Slurmd, Stepd
  <2>2. S \subseteq Stepd
    BY Zenon, <2>1
  <2>3. Killed(d, id) = [d EXCEPT !.steps = S]
    BY Zenon DEF Killed, Slurmd
  <2> HIDE DEF S
  <2> QED BY Zenon, <2>2, <2>3 DEF Slurmd
<1>3. ASSUME NEW m PROVE Cleaned(d, m) \in Slurmd
  <2> DEFINE S == {IF c.sluid = m.sluid THEN [c EXCEPT !.expiring = TRUE] ELSE c
                     : c \in d.creds}
  <2>1. ASSUME NEW c \in d.creds
        PROVE  (IF c.sluid = m.sluid THEN [c EXCEPT !.expiring = TRUE] ELSE c) \in Cred
    BY Zenon DEF Slurmd, Cred
  <2>2. S \subseteq Cred
    BY Zenon, <2>1
  <2>3. Cleaned(d, m) \in {d, [d EXCEPT !.active = @ \ {m.id}, !.creds = S]}
    BY Zenon DEF Cleaned, Slurmd
  <2> HIDE DEF S
  <2> QED BY Zenon, <2>2, <2>3 DEF Slurmd
<1>4. ASSUME NEW m, m.sluid \in Nat, m.time \in Nat PROVE Revoked(d, m) \in Slurmd
  <2> DEFINE old == CredOf(d, m.sluid)
             new == [sluid |-> m.sluid, revoked |-> m.time, expiring |-> FALSE]
             kept(c) == IF c.revoked # 0
                        THEN IF m.start # 0 /\ c.revoked < m.start THEN new ELSE c
                        ELSE [c EXCEPT !.revoked = m.time]
  <2>1. new \in Cred
    BY Zenon, <1>4 DEF Cred
  <2>2. old \subseteq Cred
    BY Zenon DEF CredOf, Slurmd
  <2>3. ASSUME NEW c \in old PROVE kept(c) \in Cred
    BY Zenon, <1>4, <2>1, <2>2 DEF Cred
  <2>4. {kept(c) : c \in old} \subseteq Cred
    BY Zenon, <2>3
  <2>5. Revoked(d, m) = [d EXCEPT !.creds = IF old = {} THEN @ \cup {new}
                                            ELSE (@ \ old) \cup {kept(c) : c \in old}]
    BY Zenon DEF Revoked
  <2> HIDE DEF old, new, kept
  <2> QED BY Zenon, <2>1, <2>4, <2>5 DEF Slurmd
<1>5. ASSUME NEW m, m.id \in Ids, m.sluid \in Nat PROVE Launched(d, m) \in Slurmd
  <2>1. [id |-> m.id, sluid |-> m.sluid, over |-> FALSE] \in Stepd
    BY Zenon, <1>5 DEF Stepd
  <2>2. [sluid |-> m.sluid, revoked |-> 0, expiring |-> FALSE] \in Cred
    BY Zenon, <1>5 DEF Cred
  <2> QED BY Zenon, <1>5, <2>1, <2>2 DEF Launched, Slurmd
<1>6. ASSUME NEW S \in SUBSET Stepd PROVE [d EXCEPT !.steps = S] \in Slurmd
  BY Zenon DEF Slurmd
<1> QED BY Zenon, <1>1, <1>2, <1>3, <1>4, <1>5, <1>6

\* The slurmstepds after each change of slurmd.
LEMMA StepsAfter ==
  ASSUME NEW d \in Slurmd
  PROVE  /\ \A s, t : Reissued(d, s, t).steps = d.steps
         /\ \A m : Revoked(d, m).steps = d.steps /\ Cleaned(d, m).steps = d.steps
         /\ \A m : Launched(d, m).steps =
                     d.steps \cup {[id |-> m.id, sluid |-> m.sluid, over |-> FALSE]}
         /\ \A id : \A p \in Killed(d, id).steps :
              \E q \in d.steps : /\ p.id = q.id /\ p.sluid = q.sluid
                                 /\ p = q \/ p = [q EXCEPT !.over = TRUE]
                                 /\ (q.id = id => p.over) /\ (q.id # id => p = q)
<1>1. /\ \A s, t : Reissued(d, s, t).steps = d.steps
      /\ \A m : Launched(d, m).steps =
                     d.steps \cup {[id |-> m.id, sluid |-> m.sluid, over |-> FALSE]}
  BY Zenon DEF Reissued, Launched, Slurmd
<1>2. \A m : Revoked(d, m).steps = d.steps /\ Cleaned(d, m).steps = d.steps
  BY Zenon DEF Revoked, Cleaned, Slurmd
<1>3. ASSUME NEW id, NEW p \in Killed(d, id).steps
      PROVE  \E q \in d.steps : /\ p.id = q.id /\ p.sluid = q.sluid
                                /\ p = q \/ p = [q EXCEPT !.over = TRUE]
                                /\ (q.id = id => p.over) /\ (q.id # id => p = q)
  <2>1. Killed(d, id).steps = {IF p1.id = id THEN [p1 EXCEPT !.over = TRUE] ELSE p1 : p1 \in d.steps}
    BY Zenon DEF Killed, Slurmd
  <2>2. PICK q \in d.steps : p = IF q.id = id THEN [q EXCEPT !.over = TRUE] ELSE q
    BY Zenon, <1>3, <2>1
  <2>3. q \in Stepd
    BY Zenon DEF Slurmd
  <2> QED BY Zenon, <2>2, <2>3 DEF Stepd
<1> QED BY Zenon, <1>1, <1>2, <1>3

-----------------------------------------------------------------------------
(* SLUIDs: each names one job.                                             *)

\* Job i of the table t is the incarnation s.
RecOf(t, i, s) == t[i] # NULL /\ t[i].sluid = s

\* The incarnation s belongs to the job id i: so say the records in memory, in
\* the file and in the buffer, the requests and reports under way, and the
\* slurmstepds.
ImageOf(i, s) ==
  \/ file # NULL /\ RecOf(file.jobs, i, s)
  \/ save.at = "moved" /\ RecOf(save.buffer.jobs, i, s)
Request(m) == m.type \in KillTypes \cup {"LAUNCH"}
Owner(i, s) ==
  \/ RecOf(jobs, i, s)
  \/ ImageOf(i, s)
  \/ \E m \in net : Request(m) /\ m.id = i /\ m.sluid = s
  \/ \E m \in net : m.type = "REGISTRATION" /\ <<i, s>> \in m.steps
  \/ \E n \in Nodes : \E p \in slurmd[n].steps : p.id = i /\ p.sluid = s

\* SLUIDs are given once, and to one job id.
SluidInv ==
  \A i \in Ids, s \in Nat :
    Owner(i, s) => s <= sluids /\ \A j \in Ids : Owner(j, s) => i = j

\* A request and a registration under way name the jobs that they are about.
LEMMA OwnerOfRequest ==
  ASSUME NEW m \in net, Request(m)
  PROVE  Owner(m.id, m.sluid)
BY Zenon DEF Owner
LEMMA OwnerOfListed ==
  ASSUME NEW m \in net, m.type = "REGISTRATION", NEW i, NEW s, <<i, s>> \in m.steps
  PROVE  Owner(i, s)
BY Zenon DEF Owner

\* A step keeps that if what it writes was known before, but for one job that
\* gets the next SLUID.
LEMMA OwnerStep ==
  ASSUME sluids \in Nat, sluids' \in Nat, SluidInv, sluids <= sluids', NEW j \in Ids,
         \A i \in Ids, s \in Nat :
           RecOf(jobs', i, s) =>
             Owner(i, s) \/ (i = j /\ s = sluids + 1 /\ sluids + 1 <= sluids'),
         \A i \in Ids, s \in Nat : ImageOf(i, s)' => Owner(i, s),
         \A m \in net' : Request(m) => m \in net \/ Owner(m.id, m.sluid),
         \A m \in net' : m.type = "REGISTRATION" =>
            m \in net \/ \A i \in Ids, s \in Nat : <<i, s>> \in m.steps => Owner(i, s),
         \A n \in Nodes : \A p \in slurmd'[n].steps : Owner(p.id, p.sluid)
  PROVE  SluidInv'
<1>1. ASSUME NEW i \in Ids, NEW s \in Nat, Owner(i, s)'
      PROVE  Owner(i, s) \/ (i = j /\ s = sluids + 1 /\ sluids + 1 <= sluids')
  <2>1. CASE \E m \in net' : Request(m) /\ m.id = i /\ m.sluid = s
    BY Zenon, <2>1, OwnerOfRequest
  <2>2. CASE \E m \in net' : m.type = "REGISTRATION" /\ <<i, s>> \in m.steps
    BY Zenon, <2>2, OwnerOfListed
  <2>3. CASE \E n \in Nodes : \E p \in slurmd'[n].steps : p.id = i /\ p.sluid = s
    BY Zenon, <2>3
  <2>4. CASE RecOf(jobs', i, s)
    BY Zenon, <2>4
  <2>5. CASE ImageOf(i, s)'
    BY Zenon, <2>5
  <2>6. \/ RecOf(jobs', i, s) \/ ImageOf(i, s)'
        \/ \E m \in net' : Request(m) /\ m.id = i /\ m.sluid = s
        \/ \E m \in net' : m.type = "REGISTRATION" /\ <<i, s>> \in m.steps
        \/ \E n \in Nodes : \E p \in slurmd'[n].steps : p.id = i /\ p.sluid = s
    BY <1>1, Zenon DEF Owner, RecOf, Request
  <2> QED BY Zenon, <2>1, <2>2, <2>3, <2>4, <2>5, <2>6
<1>2. ASSUME NEW i \in Ids, NEW s \in Nat, Owner(i, s)' PROVE s <= sluids'
  BY SMTT(30), <1>1, <1>2 DEF SluidInv
<1>3. ASSUME NEW i \in Ids, NEW s \in Nat, NEW k \in Ids, Owner(i, s)', Owner(k, s)'
      PROVE  i = k
  <2>1. Owner(i, s) \/ (i = j /\ s = sluids + 1)
    BY Zenon, <1>1, <1>3
  <2>2. Owner(k, s) \/ (k = j /\ s = sluids + 1)
    BY Zenon, <1>1, <1>3
  <2>3. \A l \in Ids : Owner(l, s) => s <= sluids
    BY Zenon DEF SluidInv
  <2> QED BY SMTT(30), <2>1, <2>2, <2>3 DEF SluidInv
<1> QED BY Zenon, <1>2, <1>3 DEF SluidInv

\* A step that adds nothing.
LEMMA OwnerSame ==
  ASSUME sluids \in Nat, sluids' = sluids, SluidInv,
         \A i \in Ids, s \in Nat : RecOf(jobs', i, s) => Owner(i, s),
         \A i \in Ids, s \in Nat : ImageOf(i, s)' => Owner(i, s),
         \A m \in net' : Request(m) => m \in net \/ Owner(m.id, m.sluid),
         \A m \in net' : m.type = "REGISTRATION" =>
            m \in net \/ \A i \in Ids, s \in Nat : <<i, s>> \in m.steps => Owner(i, s),
         \A n \in Nodes : \A p \in slurmd'[n].steps : Owner(p.id, p.sluid)
  PROVE  SluidInv'
<1>1. 1 \in Ids /\ sluids <= sluids'
  BY RecoveryAssumption DEF Ids
<1> QED BY Zenon, <1>1, OwnerStep

\* A handler leaves the file and the buffer.
LEMMA HandleImages ==
  ASSUME SaveRec, NEW t, NEW b, Handle(t, b)
  PROVE  /\ \A i, s : ImageOf(i, s)' = ImageOf(i, s)
         /\ save'.at = save.at /\ save'.buffer = save.buffer /\ file' = file
<1>1. save'.at = save.at /\ save'.buffer = save.buffer /\ file' = file
  BY Zenon DEF Handle, SaveRec, ScheduleJobSave
<1> QED BY Zenon, <1>1 DEF ImageOf, RecOf

\* Of the job that runs, or completes, a kill says who it is.
LEMMA DeallocateOwner ==
  ASSUME TypeInv, NEW i \in Ids, NEW m \in Deallocate(i)
  PROVE  /\ Request(m) /\ m.type = "TERMINATE" /\ Running(jobs[i]) /\ ~m.begun
         /\ m.id = i /\ m.sluid = jobs[i].sluid /\ m.time = clock /\ m.node = jobs[i].node
         /\ RecOf(jobs, m.id, m.sluid)
BY DEF Deallocate, Kill, Request, RecOf, Running, KillTypes

\* The incarnations in a well-typed state are numbers.
LEMMA RecordSluid ==
  ASSUME jobs \in Table, NEW i \in Ids, jobs[i] # NULL
  PROVE  jobs[i].sluid \in Nat /\ RecOf(jobs, i, jobs[i].sluid)
BY Zenon DEF Table, GoodRecord, JobRecord, RecOf

\* The request validate_jobs_on_node() sends is about what was listed.
LEMMA AnswerOwner ==
  ASSUME TypeInv, NEW n \in Nodes, NEW id \in Ids, NEW s \in Nat, NEW m \in Answer(n, id, s)
  PROVE  /\ Request(m) /\ m.type \in KillTypes /\ ~m.begun /\ m.sluid = s /\ m.time = clock
         /\ m.node = n
         /\ (m.id = id /\ Find(s) = {}) \/ (m.id \in Ids /\ RecOf(jobs, m.id, s))
<1>1. CASE Find(s) = {}
  <2>1. m = [type |-> "ABORT", id |-> id, node |-> n, sluid |-> s, time |-> clock,
             start |-> 0, begun |-> FALSE]
    BY Zenon, <1>1 DEF Answer
  <2> QED BY Zenon, <1>1, <2>1 DEF Request, KillTypes
<1>2. CASE Find(s) # {}
  <2> DEFINE i == CHOOSE j \in Find(s) : TRUE
  <2>1. i \in Find(s)
    BY Zenon, <1>2
  <2>2. i \in Ids /\ jobs[i] # NULL /\ jobs[i].sluid = s
    BY Zenon, <2>1 DEF Find
  <2>3. jobs[i].state \in {"PENDING", "RUNNING", "DONE"} /\ jobs[i].cg \in BOOLEAN
    BY Zenon, <2>2 DEF TypeInv, CtldType, Table, GoodRecord, JobRecord
  <2>4. Answer(n, id, s) \subseteq {Kill("ABORT", i, jobs[i], n), Kill("TERMINATE", i, jobs[i], n)}
    BY Zenon, <1>2, <2>2, <2>3 DEF Answer, Running
  <2> HIDE DEF i
  <2> QED BY <2>2, <2>4 DEF Kill, Request, KillTypes, RecOf
<1> QED BY Zenon, <1>1, <1>2

\* At most one job has a given incarnation.
LEMMA FindOne ==
  ASSUME TypeInv, SluidInv, NEW s, NEW i \in Find(s), NEW j \in Find(s)
  PROVE  i = j
<1>1. i \in Ids /\ j \in Ids /\ jobs[i] # NULL /\ jobs[j] # NULL /\ jobs[i].sluid = s
      /\ jobs[j].sluid = s
  BY Zenon DEF Find
<1>2. s \in Nat /\ RecOf(jobs, i, s) /\ RecOf(jobs, j, s)
  BY Zenon, <1>1, RecordSluid DEF TypeInv, CtldType
<1> QED BY Zenon, <1>1, <1>2 DEF SluidInv, Owner

\* What the handlers do to a record keeps its incarnation.
LEMMA SluidKept ==
  ASSUME NEW r \in GoodRecord, r # NULL
  PROVE  /\ \A b \in BOOLEAN : JobComplete(r, b).sluid = r.sluid
         /\ [r EXCEPT !.quiet = FALSE].sluid = r.sluid
         /\ [r EXCEPT !.quiet = TRUE].sluid = r.sluid
         /\ [r EXCEPT !.held = FALSE].sluid = r.sluid
         /\ [r EXCEPT !.cg = FALSE].sluid = r.sluid
         /\ \A n, t : [r EXCEPT !.state = "RUNNING", !.node = n, !.start = t,
                                !.quiet = FALSE].sluid = r.sluid
         /\ LaunchFailed(r).sluid = r.sluid
            \/ (case.requeue /\ r.state = "DONE" /\ ~r.cg /\ LaunchFailed(r).sluid = sluids + 1)
         /\ BatchRequeueFini(r).sluid = sluids + 1
<1>1. \A b \in BOOLEAN : JobComplete(r, b).sluid = r.sluid
  BY Zenon DEF JobComplete, Ended, GoodRecord, JobRecord
<1>2. BatchRequeueFini(r).sluid = sluids + 1
  BY Zenon DEF BatchRequeueFini, NewJob
<1>3. LaunchFailed(r).sluid = r.sluid
      \/ (case.requeue /\ r.state = "DONE" /\ ~r.cg /\ LaunchFailed(r).sluid = sluids + 1)
  <2>0. r.state \in {"PENDING", "RUNNING", "DONE"} /\ r.cg \in BOOLEAN
    BY Zenon DEF GoodRecord, JobRecord
  <2>1. CASE case.requeue /\ ~Running(r) /\ r.state # "PENDING" /\ ~(r.state = "DONE" /\ r.cg)
    <3>1. LaunchFailed(r) = BatchRequeueFini([r EXCEPT !.held = TRUE])
      BY Zenon, <2>1 DEF LaunchFailed
    <3>2. r.state = "DONE"
      BY Zenon, <2>0, <2>1 DEF Running
    <3> QED BY Zenon, <2>0, <2>1, <3>1, <3>2 DEF BatchRequeueFini, NewJob, Running
  <2>2. CASE ~(case.requeue /\ ~Running(r) /\ r.state # "PENDING" /\ ~(r.state = "DONE" /\ r.cg))
    BY Zenon, <2>0, <2>2 DEF LaunchFailed, Ended, GoodRecord, JobRecord
  <2> QED BY Zenon, <2>1, <2>2
<1>4. /\ [r EXCEPT !.quiet = FALSE].sluid = r.sluid
      /\ [r EXCEPT !.quiet = TRUE].sluid = r.sluid
      /\ [r EXCEPT !.held = FALSE].sluid = r.sluid
      /\ [r EXCEPT !.cg = FALSE].sluid = r.sluid
      /\ \A n, t : [r EXCEPT !.state = "RUNNING", !.node = n, !.start = t,
                                !.quiet = FALSE].sluid = r.sluid
  BY Zenon DEF GoodRecord, JobRecord
<1> QED BY Zenon, <1>1, <1>2, <1>3, <1>4

\* What slurmd has running belongs to a job.
LEMMA StepOwner == \A n \in Nodes : \A p \in slurmd[n].steps : Owner(p.id, p.sluid)
BY Zenon DEF Owner

\* A handler that keeps incarnations, sends kills of owners, and leaves slurmd
\* with no more slurmstepds, keeps the invariant.
LEMMA HandlerOwner ==
  ASSUME TypeInv, SluidInv, sluids' = sluids, NEW t, NEW b, Handle(t, b),
         \A i \in Ids : t[i] = NULL \/ (jobs[i] # NULL /\ t[i].sluid = jobs[i].sluid),
         \A m \in net' : m \in net \/ (Request(m) /\ Owner(m.id, m.sluid)),
         \A n \in Nodes : slurmd'[n].steps \subseteq slurmd[n].steps
  PROVE  SluidInv'
<1>1. \A i \in Ids, s \in Nat : RecOf(jobs', i, s) => Owner(i, s)
  BY Zenon DEF Handle, RecOf, Owner
<1>2. \A i \in Ids, s \in Nat : ImageOf(i, s)' => Owner(i, s)
  BY HandleImages DEF TypeInv, CtldType, SaveType, Owner
<1>3. \A n \in Nodes : \A p \in slurmd'[n].steps : Owner(p.id, p.sluid)
  BY Zenon, StepOwner
<1>4. \A m : Request(m) => m.type # "REGISTRATION"
  BY Zenon DEF Request, KillTypes
<1>5. sluids \in Nat
  BY Zenon DEF TypeInv
<1> QED BY Zenon, <1>1, <1>2, <1>3, <1>4, <1>5, OwnerSame

\* The steps of slurmctld about one job.
LEMMA JobActsOwner ==
  ASSUME TypeInv, SluidInv, NEW i \in Ids,
         \/ \E n \in Nodes : Start(i, n)
         \/ Release(i) \/ ReKillJob(i) \/ PurgeOldJob(i) \/ TimePasses(i)
  PROVE  SluidInv'
<1>0. jobs \in Table
  BY Zenon DEF TypeInv, CtldType
<1>1. jobs[i] # NULL => jobs[i] \in GoodRecord
  BY Zenon, <1>0 DEF Table
<1>2. ASSUME NEW n \in Nodes, Start(i, n) PROVE SluidInv'
  <2> DEFINE r == [jobs[i] EXCEPT !.state = "RUNNING", !.node = n, !.start = clock,
                                  !.quiet = FALSE]
             m == [type |-> "LAUNCH", id |-> i, node |-> n, sluid |-> jobs[i].sluid,
                   ctime |-> clock, dead |-> FALSE]
             t == [jobs EXCEPT ![i] = r]
  <2>1. jobs[i] \in GoodRecord /\ jobs[i] # NULL
    BY Zenon, <1>1, <1>2 DEF Start
  <2>2. r.sluid = jobs[i].sluid
    BY SMTT(30), <2>1, SluidKept
  <2>3. Request(m) /\ Owner(m.id, m.sluid)
    BY Zenon, <2>1 DEF Request, Owner, RecOf
  <2>4. Handle(t, TRUE) /\ net' = net \cup {m} /\ UNCHANGED <<slurmd, sluids>>
    BY Zenon, <1>2 DEF Start
  <2> HIDE DEF r, m
  <2>5. \A j \in Ids : t[j] = NULL \/ (jobs[j] # NULL /\ t[j].sluid = jobs[j].sluid)
    BY Zenon, <1>0, <2>1, <2>2 DEF Table
  <2> HIDE DEF t
  <2> QED BY Zenon, <2>3, <2>4, <2>5, HandlerOwner
<1>3. ASSUME NEW r, NEW b, Handle([jobs EXCEPT ![i] = r], b),
             r = NULL \/ (jobs[i] # NULL /\ r.sluid = jobs[i].sluid),
             \A m \in net' : m \in net \/ (Request(m) /\ Owner(m.id, m.sluid)),
             UNCHANGED <<slurmd, sluids>>
      PROVE  SluidInv'
  <2> DEFINE t == [jobs EXCEPT ![i] = r]
  <2>1. \A j \in Ids : t[j] = NULL \/ (jobs[j] # NULL /\ t[j].sluid = jobs[j].sluid)
    BY Zenon, <1>0, <1>3 DEF Table
  <2>2. Handle(t, b)
    BY Zenon, <1>3
  <2> HIDE DEF t
  <2> QED BY Zenon, <1>3, <2>1, <2>2, HandlerOwner
<1>4. CASE Release(i)
  BY Zenon, <1>1, <1>3, <1>4, SluidKept DEF Release
<1>5. CASE ReKillJob(i)
  <2>1. jobs[i] \in GoodRecord /\ jobs[i] # NULL
    BY Zenon, <1>1, <1>5 DEF ReKillJob, Completing
  <2> DEFINE m == Kill("TERMINATE", i, jobs[i], jobs[i].node)
  <2>2. Request(m) /\ Owner(m.id, m.sluid)
    BY Zenon, <2>1 DEF Kill, Request, KillTypes, Owner, RecOf
  <2>3. net' = net \cup {m}
    BY Zenon, <1>5 DEF ReKillJob
  <2> HIDE DEF m
  <2> QED BY ZenonT(30), <1>3, <1>5, <2>1, <2>2, <2>3, SluidKept DEF ReKillJob
<1>6. CASE PurgeOldJob(i)
  BY Zenon, <1>3, <1>6 DEF PurgeOldJob
<1>7. CASE TimePasses(i)
  BY Zenon, <1>1, <1>3, <1>7, SluidKept DEF TimePasses
<1> QED BY Zenon, <1>2, <1>4, <1>5, <1>6, <1>7

\* A handler that gives the jobs of F, all of one incarnation, the next SLUID.
LEMMA RenewOwner ==
  ASSUME TypeInv, SluidInv, NEW s, NEW F \in SUBSET Find(s), NEW t, NEW b, Handle(t, b),
         sluids' = sluids + NewSluids(F), UNCHANGED slurmd,
         \A i \in Ids : t[i] = NULL \/ (jobs[i] # NULL /\ t[i].sluid = jobs[i].sluid)
                        \/ (i \in F /\ t[i].sluid = sluids + 1),
         \A m \in net' : m \in net \/ (Request(m) /\ Owner(m.id, m.sluid))
  PROVE  SluidInv'
<1>0. sluids \in Nat /\ F \subseteq Ids
  BY Zenon DEF TypeInv, Find
<1>1. NewSluids(F) \in Nat
  BY Zenon, CountTyped
<1>2. ASSUME NEW i \in F PROVE NewSluids(F) = 1
  BY Zenon, <1>2, CountTyped
<1>3. PICK j \in Ids : \A i \in F : i = j
  <2>1. 1 \in Ids
    BY SMTT(30), RecoveryAssumption DEF Ids
  <2>2. CASE F = {}
    BY Zenon, <2>1, <2>2
  <2>3. CASE F # {}
    <3>1. PICK k \in F : TRUE
      BY Zenon, <2>3
    <3>2. k \in Ids
      BY Zenon, <1>0, <3>1
    <3>3. \A i \in F : i = k
      BY Zenon, <3>1, FindOne
    <3> QED BY Zenon, <3>2, <3>3
  <2> QED BY Zenon, <2>2, <2>3
<1>4. \A i \in Ids, u \in Nat :
        RecOf(jobs', i, u) => Owner(i, u) \/ (i = j /\ u = sluids + 1 /\ sluids + 1 <= sluids')
  <2> SUFFICES ASSUME NEW i \in Ids, NEW u \in Nat, RecOf(jobs', i, u)
               PROVE  Owner(i, u) \/ (i = j /\ u = sluids + 1 /\ sluids + 1 <= sluids')
    BY Zenon
  <2>1. jobs' = t
    BY Zenon DEF Handle
  <2>2. CASE i \in F /\ t[i].sluid = sluids + 1
    <3>1. i = j /\ sluids' = sluids + 1
      BY Zenon, <1>2, <1>3, <2>2
    <3> QED BY SMTT(30), <1>0, <2>1, <2>2, <3>1 DEF RecOf
  <2>3. CASE jobs[i] # NULL /\ t[i].sluid = jobs[i].sluid
    BY Zenon, <2>1, <2>3 DEF RecOf, Owner
  <2> QED BY Zenon, <2>1, <2>2, <2>3 DEF RecOf
<1>5. \A i \in Ids, u \in Nat : ImageOf(i, u)' => Owner(i, u)
  BY ZenonT(30), HandleImages DEF TypeInv, CtldType, SaveType, Owner
<1>6. \A n \in Nodes : \A p \in slurmd'[n].steps : Owner(p.id, p.sluid)
  BY Zenon, StepOwner
<1>7. \A m : Request(m) => m.type # "REGISTRATION"
  BY Zenon DEF Request, KillTypes
<1>8. sluids' \in Nat /\ sluids <= sluids'
  BY SMTT(30), <1>0, <1>1
<1>9. /\ \A m \in net' : Request(m) => m \in net \/ Owner(m.id, m.sluid)
      /\ \A m \in net' : m.type = "REGISTRATION" =>
           m \in net \/ \A i \in Ids, u \in Nat : <<i, u>> \in m.steps => Owner(i, u)
  BY Zenon, <1>7
<1> QED BY Zenon, <1>0, <1>3, <1>4, <1>5, <1>6, <1>8, <1>9, OwnerStep

\* The messages slurmctld handles.
LEMMA CtldActsOwner ==
  ASSUME TypeInv, SluidInv, NEW m \in net,
         CtldReceives(m) \/ NoResponse(m) \/ LoseMessage(m)
  PROVE  SluidInv'
<1>0. jobs \in Table /\ net \subseteq Message /\ m \in Message
  BY Zenon DEF TypeInv, CtldType
<1>1. \A i \in Ids : jobs[i] # NULL => jobs[i] \in GoodRecord
  BY Zenon, <1>0 DEF Table
<1>2. \A i \in Ids : \A w \in Deallocate(i) : Request(w) /\ Owner(w.id, w.sluid)
  BY Zenon, DeallocateOwner DEF Owner
<1>3. \A s : Find(s) \subseteq Ids /\ \A i \in Find(s) : jobs[i] # NULL
  BY Zenon DEF Find
<1>4. CASE EpilogComplete(m)
  <2> DEFINE hit  == {i \in Find(m.sluid) : jobs[i].cg /\ jobs[i].node = m.node}
             fini == {i \in hit : jobs[i].state = "PENDING"}
             t == [i \in Ids |-> CASE i \in fini -> BatchRequeueFini(jobs[i])
                                   [] i \in hit \ fini -> [jobs[i] EXCEPT !.cg = FALSE]
                                   [] OTHER -> jobs[i]]
  <2>1. \A i \in Ids : t[i] = NULL \/ (jobs[i] # NULL /\ t[i].sluid = jobs[i].sluid)
                        \/ (i \in fini /\ t[i].sluid = sluids + 1)
    <3> SUFFICES ASSUME NEW i \in Ids
                 PROVE  t[i] = NULL \/ (jobs[i] # NULL /\ t[i].sluid = jobs[i].sluid)
                        \/ (i \in fini /\ t[i].sluid = sluids + 1)
      BY Zenon
    <3>1. i \in hit => jobs[i] # NULL /\ jobs[i] \in GoodRecord
      BY Zenon, <1>1 DEF Find
    <3>2. fini \subseteq hit
      BY Zenon
    <3> HIDE DEF fini, hit
    <3>3. \/ i \in fini /\ t[i] = BatchRequeueFini(jobs[i])
          \/ i \in hit /\ t[i] = [jobs[i] EXCEPT !.cg = FALSE]
          \/ t[i] = jobs[i]
      BY Zenon
    <3> HIDE DEF t
    <3> QED BY Zenon, <3>1, <3>2, <3>3, SluidKept
  <2>2. Handle(t, hit # {} /\ ctld = "up") /\ net' = net \ {m}
        /\ sluids' = sluids + NewSluids(fini) /\ UNCHANGED slurmd
    BY Zenon, <1>4 DEF EpilogComplete
  <2>3. fini \subseteq Find(m.sluid)
    BY Zenon
  <2> HIDE DEF t, fini, hit
  <2> QED BY Zenon, <2>1, <2>2, <2>3, RenewOwner
<1>5. CASE JobRequeue(m)
  <2> DEFINE hit  == Find(m.sluid)
             fini == {i \in hit : case.requeue /\ jobs[i].state = "DONE" /\ ~jobs[i].cg}
             t == [i \in Ids |-> IF i \in hit THEN LaunchFailed(jobs[i]) ELSE jobs[i]]
  <2>1. \A i \in Ids : t[i] = NULL \/ (jobs[i] # NULL /\ t[i].sluid = jobs[i].sluid)
                        \/ (i \in fini /\ t[i].sluid = sluids + 1)
    <3> SUFFICES ASSUME NEW i \in Ids, i \in hit
                 PROVE  (jobs[i] # NULL /\ LaunchFailed(jobs[i]).sluid = jobs[i].sluid)
                        \/ (i \in fini /\ LaunchFailed(jobs[i]).sluid = sluids + 1)
      BY Zenon
    <3>1. jobs[i] # NULL /\ jobs[i] \in GoodRecord
      BY Zenon, <1>1 DEF Find
    <3> QED BY Zenon, <3>1, SluidKept
  <2>2. Handle(t, hit # {}) /\ net' = (net \ {m}) \cup UNION {Deallocate(i) : i \in hit}
        /\ sluids' = sluids + NewSluids(fini) /\ UNCHANGED slurmd
    BY Zenon, <1>5 DEF JobRequeue
  <2>3. fini \subseteq Find(m.sluid) /\ hit \subseteq Ids
    BY Zenon, <1>3
  <2> HIDE DEF t, fini, hit
  <2>4. \A w \in net' : w \in net \/ (Request(w) /\ Owner(w.id, w.sluid))
    BY Zenon, <1>2, <2>2, <2>3
  <2> QED BY Zenon, <2>1, <2>2, <2>3, <2>4, RenewOwner
<1>6. ASSUME NEW b \in BOOLEAN, NEW left, AgentEnds(m, b, left),
             \A w \in left : Request(w) /\ Owner(w.id, w.sluid)
      PROVE  SluidInv'
  <2> DEFINE hit == Find(m.sluid)
             t == [i \in Ids |-> IF i \in hit THEN JobComplete(jobs[i], b) ELSE jobs[i]]
  <2>1. \A i \in Ids : t[i] = NULL \/ (jobs[i] # NULL /\ t[i].sluid = jobs[i].sluid)
    <3> HIDE DEF hit
    <3>1. \A i \in hit : jobs[i] # NULL
      BY Zenon, <1>3 DEF hit
    <3> QED BY Zenon, <1>1, <1>6, <3>1, SluidKept
  <2>2. Handle(t, FALSE) /\ net' = (net \ {m}) \cup left \cup UNION {Deallocate(i) : i \in hit}
        /\ UNCHANGED <<slurmd, sluids>>
    BY Zenon, <1>6 DEF AgentEnds
  <2>3. hit \subseteq Ids
    BY Zenon, <1>3
  <2> HIDE DEF t, hit
  <2>4. \A w \in net' : w \in net \/ (Request(w) /\ Owner(w.id, w.sluid))
    BY Zenon, <1>2, <1>6, <2>2, <2>3
  <2> QED BY Zenon, <2>1, <2>2, <2>4, HandlerOwner
<1>7. CASE LaunchRefused(m)
  <2>1. PICK left \in {{}} : AgentEnds(m, FALSE, left)
    BY Zenon, <1>7 DEF LaunchRefused
  <2>2. \A w \in left : Request(w) /\ Owner(w.id, w.sluid)
    BY Zenon, <2>1
  <2> QED BY Zenon, <1>6, <2>1, <2>2
<1>8. CASE NoResponse(m)
  <2> DEFINE w == [m EXCEPT !.dead = TRUE]
  <2>1. m.type = "LAUNCH" /\ Owner(m.id, m.sluid)
    BY Zenon, <1>8 DEF NoResponse, Owner, Request
  <2>2. w.type = m.type /\ w.id = m.id /\ w.sluid = m.sluid
    BY Zenon, <1>0, <2>1, RequestFields
  <2>3. PICK left \in {{}, {w}} : AgentEnds(m, TRUE, left)
    BY Zenon, <1>8 DEF NoResponse
  <2>4. Request(w) /\ Owner(w.id, w.sluid)
    BY Zenon, <2>1, <2>2 DEF Request
  <2> HIDE DEF w
  <2> QED BY Zenon, <1>6, <2>3, <2>4
<1>9. CASE LoseMessage(m)
  <2>1. net' \subseteq net /\ UNCHANGED <<jobs, save, file, slurmd, sluids>>
    BY Zenon, <1>9 DEF LoseMessage, ctldVars
  <2> QED BY <2>1 DEF SluidInv, Owner, ImageOf, RecOf, Request
<1>10. CASE Registration(m)
  <2> DEFINE listed == {x[2] : x \in m.steps}
             gone   == Missing(m.node, listed)
             seen(r) == Running(r) /\ r.node = m.node /\ r.sluid \in listed
             t == [i \in Ids |-> CASE i \in gone -> JobComplete(jobs[i], case.requeue)
                                   [] seen(jobs[i]) -> [jobs[i] EXCEPT !.quiet = FALSE]
                                   [] OTHER -> jobs[i]]
  <2>0. case.requeue \in BOOLEAN
    BY Zenon DEF TypeInv, CaseType
  <2>1. \A i \in Ids : t[i] = NULL \/ (jobs[i] # NULL /\ t[i].sluid = jobs[i].sluid)
    <3> SUFFICES ASSUME NEW i \in Ids
                 PROVE  t[i] = NULL \/ (jobs[i] # NULL /\ t[i].sluid = jobs[i].sluid)
      BY Zenon
    <3>1. \/ t[i] = JobComplete(jobs[i], case.requeue) /\ jobs[i] # NULL
          \/ t[i] = [jobs[i] EXCEPT !.quiet = FALSE] /\ jobs[i] # NULL
          \/ t[i] = jobs[i]
      BY Zenon DEF Missing, Running
    <3> HIDE DEF t
    <3> QED BY Zenon, <1>1, <2>0, <3>1, SluidKept
  <2>2. m.steps \subseteq Ids \X Nat /\ m.node \in Nodes /\ m.type = "REGISTRATION"
    BY Zenon, <1>0, <1>10, RequestFields DEF Registration
  <2>3. ASSUME NEW x \in m.steps, NEW w \in Answer(m.node, x[1], x[2])
        PROVE  Request(w) /\ Owner(w.id, w.sluid)
    <3>1. x[1] \in Ids /\ x[2] \in Nat /\ <<x[1], x[2]>> \in m.steps
      BY SMTT(30), <2>2
    <3>2. Request(w) /\ w.sluid = x[2] /\ (w.id = x[1] \/ RecOf(jobs, w.id, x[2]))
      BY <2>2, <3>1, AnswerOwner
    <3> QED BY Zenon, <2>2, <3>1, <3>2 DEF Owner
  <2>4. Handle(t, FALSE) /\ UNCHANGED <<slurmd, sluids>>
        /\ net' = (net \ {m}) \cup (UNION {Answer(m.node, x[1], x[2]) : x \in m.steps})
                              \cup UNION {Deallocate(i) : i \in gone}
    BY Zenon, <1>10 DEF Registration
  <2>5. gone \subseteq Ids
    BY Zenon DEF Missing
  <2> HIDE DEF t, gone, listed
  <2>6. \A w \in net' : w \in net \/ (Request(w) /\ Owner(w.id, w.sluid))
    BY Zenon, <1>2, <2>3, <2>4, <2>5
  <2> QED BY Zenon, <2>1, <2>4, <2>6, HandlerOwner
<1> QED BY Zenon, <1>4, <1>5, <1>7, <1>8, <1>9, <1>10 DEF CtldReceives

\* A step of slurmd whose steps, requests and registrations were known.
LEMMA SlurmdOwner ==
  ASSUME TypeInv, SluidInv, NEW n \in Nodes, NEW d, NEW S, SlurmdStep(n, d, S),
         \A p \in d.steps : Owner(p.id, p.sluid),
         \A w \in S : w \in net \/ (Request(w) /\ Owner(w.id, w.sluid))
                      \/ w.type \in {"REFUSED", "REQUEUE", "EPILOG"}
  PROVE  SluidInv'
<1>1. /\ UNCHANGED <<jobs, save, file, sluids>> /\ net' = S /\ sluids \in Nat
      /\ slurmd' = [slurmd EXCEPT ![n] = d] /\ slurmd \in [Nodes -> Slurmd]
  BY Zenon DEF SlurmdStep, ctldVars, TypeInv
<1>2. \A k \in Nodes : \A p \in slurmd'[k].steps : Owner(p.id, p.sluid)
  BY Zenon, <1>1, StepOwner
<1>3. \A i \in Ids, s \in Nat : RecOf(jobs', i, s) => Owner(i, s)
  BY Zenon, <1>1 DEF Owner
<1>4. \A i \in Ids, s \in Nat : ImageOf(i, s)' => Owner(i, s)
  BY Zenon, <1>1 DEF Owner, ImageOf, RecOf
<1>5. \A w : Request(w) => w.type \notin {"REFUSED", "REQUEUE", "EPILOG", "REGISTRATION"}
  BY Zenon DEF Request, KillTypes
<1>6. /\ \A w \in net' : Request(w) => w \in net \/ Owner(w.id, w.sluid)
      /\ \A w \in net' : w.type = "REGISTRATION" =>
           w \in net \/ \A i \in Ids, u \in Nat : <<i, u>> \in w.steps => Owner(i, u)
  BY Zenon, <1>1, <1>5
<1> QED BY Zenon, <1>1, <1>2, <1>3, <1>4, <1>6, OwnerSame

\* What slurmd does with requests.
LEMMA SlurmdActsOwner ==
  ASSUME TypeInv, SluidInv, NEW m \in net,
         SlurmdReceives(m) \/ SlurmdKills(m) \/ LaunchUnanswered(m)
  PROVE  SluidInv'
<1>1. m \in Message /\ m.node \in Nodes /\ slurmd[m.node] \in Slurmd
  BY Zenon, RequestFields DEF TypeInv
<1> DEFINE c == slurmd[m.node]
<1>2. \A p \in c.steps : Owner(p.id, p.sluid)
  BY Zenon, <1>1, StepOwner
<1>3. \A w \in {Report("REQUEUE", m), Report("REFUSED", m), Report("EPILOG", m)} :
        w.type \in {"REFUSED", "REQUEUE", "EPILOG"}
  BY SMTT(30) DEF Report
<1>4. ASSUME m.type = "LAUNCH", LaunchBatchJob(m) \/ LaunchUnanswered(m) PROVE SluidInv'
  <2> DEFINE d == Reissued(c, m.sluid, m.ctime)
  <2>0. m.id \in Ids /\ m.sluid \in Nat /\ Owner(m.id, m.sluid)
    BY Zenon, <1>1, <1>4, RequestFields DEF Owner, Request
  <2>1. d \in Slurmd /\ d.steps = c.steps
    BY <1>1, SlurmdTypes, StepsAfter
  <2> HIDE DEF d
  <2>2. Launched(d, m).steps = c.steps \cup {[id |-> m.id, sluid |-> m.sluid, over |-> FALSE]}
    BY SMTT(30), <2>1, StepsAfter
  <2>3. \A p \in Launched(d, m).steps : Owner(p.id, p.sluid)
    BY <1>2, <2>0, <2>2
  <2>4. \/ SlurmdStep(m.node, c, (net \ {m}) \cup {Report("REQUEUE", m)})
        \/ SlurmdStep(m.node, d, (net \ {m}) \cup {Report("REQUEUE", m)})
        \/ SlurmdStep(m.node, d, net \ {m})
        \/ SlurmdStep(m.node, d, (net \ {m}) \cup {Report("REFUSED", m)})
        \/ SlurmdStep(m.node, Launched(d, m), net \ {m})
    BY Zenon, <1>4 DEF LaunchBatchJob, LaunchUnanswered, d
  <2>5. ASSUME NEW e, NEW w, SlurmdStep(m.node, e, (net \ {m}) \cup {w}) \/ SlurmdStep(m.node, e, net \ {m}),
               w.type \in {"REFUSED", "REQUEUE", "EPILOG"},
               \A p \in e.steps : Owner(p.id, p.sluid)
        PROVE  SluidInv'
    <3>1. \A x \in (net \ {m}) \cup {w} : x \in net \/ x.type \in {"REFUSED", "REQUEUE", "EPILOG"}
      BY Zenon, <2>5
    <3> QED BY Zenon, <1>1, <2>5, <3>1, SlurmdOwner
  <2> HIDE DEF c
  <2> QED BY Zenon, <1>2, <1>3, <2>1, <2>3, <2>4, <2>5
<1>5. ASSUME m.type \in KillTypes, SlurmdReceives(m) \/ SlurmdKills(m) PROVE SluidInv'
  <2> DEFINE v == Revoked(c, m)
             d == [v EXCEPT !.steps = {p \in @ : p.id = m.id => p.over}]
             w == [m EXCEPT !.begun = TRUE]
  <2>0. m.sluid \in Nat /\ m.time \in Nat /\ w.id = m.id /\ w.sluid = m.sluid /\ w.type = m.type
        /\ Owner(m.id, m.sluid) /\ m.type # "LAUNCH"
    BY Zenon, <1>1, <1>5, RequestFields DEF Owner, Request, KillTypes
  <2>1. Request(w) /\ Owner(w.id, w.sluid)
    BY Zenon, <1>5, <2>0 DEF Request
  <2>2. v \in Slurmd /\ v.steps = c.steps
    BY Zenon, <1>1, <2>0, SlurmdTypes, StepsAfter
  <2>3. d \in Slurmd /\ d.steps \subseteq c.steps
    <3> HIDE DEF v
    <3> QED BY Zenon, <2>2 DEF Slurmd
  <2>4. Cleaned(d, m).steps \subseteq c.steps /\ Cleaned(c, m).steps = c.steps
    BY Zenon, <1>1, <2>3, StepsAfter
  <2>5. \A p \in Killed(v, m.id).steps : Owner(p.id, p.sluid)
    BY <1>2, <2>2, StepsAfter
  <2>6. \A p \in Killed(c, m.id).steps : Owner(p.id, p.sluid)
    BY <1>1, <1>2, StepsAfter
  <2>7. \/ SlurmdStep(m.node, Cleaned(d, m), net \ {m})
        \/ SlurmdStep(m.node, d, (net \ {m}) \cup {w})
        \/ SlurmdStep(m.node, c, net \ {m})
        \/ SlurmdStep(m.node, Killed(v, m.id), (net \ {m}) \cup {w})
        \/ SlurmdStep(m.node, Killed(c, m.id), net)
        \/ SlurmdStep(m.node, Cleaned(c, m), (net \ {m}) \cup {})
        \/ SlurmdStep(m.node, Cleaned(c, m), (net \ {m}) \cup {Report("EPILOG", m)})
    BY <1>5, <2>0, Zenon DEF SlurmdReceives, SlurmdKills, LaunchBatchJob, AbortBegins,
         TerminateBegins, KillAgain, KillEnds
  <2> HIDE DEF c, v, d, w
  <2> QED BY SMTT(30), <1>1, <1>2, <1>3, <2>1, <2>3, <2>4, <2>5, <2>6, <2>7, SlurmdOwner
<1>6. SlurmdReceives(m) \/ SlurmdKills(m) =>
        (m.type = "LAUNCH" /\ LaunchBatchJob(m)) \/ m.type \in KillTypes
  BY Zenon DEF SlurmdReceives, SlurmdKills, LaunchBatchJob, AbortBegins, TerminateBegins, KillAgain,
     KillEnds, KillTypes
<1>7. LaunchUnanswered(m) => m.type = "LAUNCH"
  BY Zenon DEF LaunchUnanswered
<1> QED BY Zenon, <1>4, <1>5, <1>6, <1>7

\* The steps about a node and its slurmstepds.
LEMMA NodeActsOwner ==
  ASSUME TypeInv, SluidInv, NEW n \in Nodes,
         \/ SlurmdRegisters(n)
         \/ \E p \in slurmd[n].steps :
              ScriptEnds(n, p) \/ \E again \in BOOLEAN : CompleteBatchScript(n, p, again)
  PROVE  SluidInv'
<1>0. /\ jobs \in Table /\ slurmd \in [Nodes -> Slurmd] /\ slurmd[n] \in Slurmd /\ sluids \in Nat
  BY Zenon DEF TypeInv, CtldType
<1>1. CASE SlurmdRegisters(n)
  <2> DEFINE m == [type |-> "REGISTRATION", node |-> n,
                   steps |-> {<<p.id, p.sluid>> : p \in slurmd[n].steps}]
  <2>1. net' = net \cup {m} /\ UNCHANGED <<jobs, save, file, slurmd, sluids>>
    BY Zenon, <1>1 DEF SlurmdRegisters, ctldVars
  <2>2. \A i \in Ids, s \in Nat : <<i, s>> \in m.steps => Owner(i, s)
    BY Zenon, StepOwner
  <2>3. m.type = "REGISTRATION" /\ ~Request(m)
    BY Zenon DEF Request, KillTypes
  <2> HIDE DEF m
  <2>4. \A i \in Ids, s \in Nat : RecOf(jobs', i, s) => Owner(i, s)
    BY Zenon, <2>1 DEF Owner
  <2>5. \A i \in Ids, s \in Nat : ImageOf(i, s)' => Owner(i, s)
    BY Zenon, <2>1 DEF Owner, ImageOf, RecOf
  <2>6. \A k \in Nodes : \A p \in slurmd'[k].steps : Owner(p.id, p.sluid)
    BY Zenon, <2>1, StepOwner
  <2> QED BY Zenon, <1>0, <2>1, <2>2, <2>3, <2>4, <2>5, <2>6, OwnerSame
<1>2. ASSUME NEW p \in slurmd[n].steps, ScriptEnds(n, p) PROVE SluidInv'
  <2> DEFINE d == [slurmd[n] EXCEPT !.steps = (@ \ {p}) \cup {[p EXCEPT !.over = TRUE]}]
  <2>1. SlurmdStep(n, d, net)
    BY Zenon, <1>2 DEF ScriptEnds
  <2>2. p \in Stepd
    BY Zenon, <1>0 DEF Slurmd
  <2>3. \A q \in d.steps : q \in slurmd[n].steps \/ (q.id = p.id /\ q.sluid = p.sluid)
    BY Zenon, <1>0, <2>2 DEF Slurmd, Stepd
  <2> HIDE DEF d
  <2>4. \A q \in d.steps : Owner(q.id, q.sluid)
    BY Zenon, <2>3, StepOwner
  <2> QED BY Zenon, <2>1, <2>4, SlurmdOwner
<1>3. ASSUME NEW p \in slurmd[n].steps, NEW again \in BOOLEAN, CompleteBatchScript(n, p, again)
      PROVE  SluidInv'
  <2> DEFINE own == {i \in Find(p.sluid) : jobs[i].node \in {NULL, n}}
             t == [i \in Ids |-> IF i \in own THEN JobComplete(jobs[i], FALSE) ELSE jobs[i]]
             b == \E i \in own : jobs[i].state # "DONE"
  <2>1. Handle(t, b) /\ net' = net \cup UNION {Deallocate(i) : i \in own} /\ UNCHANGED sluids
    BY Zenon, <1>3 DEF CompleteBatchScript
  <2>2. own \subseteq Ids /\ \A i \in own : jobs[i] # NULL
    BY Zenon DEF Find
  <2>3. \A k \in Nodes : slurmd'[k].steps \subseteq slurmd[k].steps
    <3>1. CASE again
      BY Zenon, <1>3, <3>1 DEF CompleteBatchScript
    <3>2. CASE ~again
      BY <1>0, <1>3, <3>2 DEF CompleteBatchScript, Slurmd
    <3> QED BY Zenon, <3>1, <3>2
  <2> HIDE DEF own
  <2>4. \A i \in Ids : t[i] = NULL \/ (jobs[i] # NULL /\ t[i].sluid = jobs[i].sluid)
    <3>1. \A i \in own : jobs[i] \in GoodRecord
      BY Zenon, <1>0, <2>2 DEF Table
    <3>2. FALSE \in BOOLEAN
      BY Zenon
    <3>3. \A i \in own : JobComplete(jobs[i], FALSE).sluid = jobs[i].sluid
      BY Zenon, <2>2, <3>1, <3>2, SluidKept
    <3> QED BY Zenon, <2>2, <3>3
  <2> HIDE DEF t, b
  <2>5. \A w \in net' : w \in net \/ (Request(w) /\ Owner(w.id, w.sluid))
    BY <2>1, <2>2, DeallocateOwner DEF Owner
  <2> QED BY Zenon, <2>1, <2>3, <2>4, <2>5, HandlerOwner
<1> QED BY Zenon, <1>1, <1>2, <1>3

\* The steps of the controller as a whole.
LEMMA GlobalActsOwner ==
  ASSUME TypeInv, SluidInv,
         Submit \/ Saver \/ Checkpoint \/ Shutdown \/ ShutdownEnds \/ Crash \/ Restart \/ Tick
  PROVE  SluidInv'
<1>0. /\ jobs \in Table /\ net \subseteq Message /\ slurmd \in [Nodes -> Slurmd] /\ sluids \in Nat
      /\ SaveType /\ SaveRec
  BY Zenon DEF TypeInv, CtldType, SaveType
<1>1. CASE Submit
  <2>1. PICK k \in 0 .. (MaxJobId - 2) :
          jobs' = [jobs EXCEPT ![Candidate(k)] = NewJob(sluids + 1)]
    BY Zenon, <1>1 DEF Submit
  <2>2. Candidate(k) \in Ids
    BY Zenon, CandidateTyped DEF TypeInv, CtldType
  <2>3. /\ sluids' = sluids + 1 /\ UNCHANGED <<file, slurmd, net>>
        /\ save'.at = save.at /\ save'.buffer = save.buffer
    BY Zenon, <1>0, <1>1 DEF Submit, ScheduleJobSave, SaveRec
  <2>4. \A i \in Ids, s \in Nat : RecOf(jobs', i, s) =>
          Owner(i, s) \/ (i = Candidate(k) /\ s = sluids + 1 /\ sluids + 1 <= sluids')
    <3> SUFFICES ASSUME NEW i \in Ids, NEW s \in Nat, RecOf(jobs', i, s)
                 PROVE  Owner(i, s) \/ (i = Candidate(k) /\ s = sluids + 1 /\ sluids + 1 <= sluids')
      BY Zenon
    <3>1. CASE i = Candidate(k)
      <4>1. jobs'[i] = NewJob(sluids + 1)
        BY Zenon, <1>0, <2>1, <2>2, <3>1 DEF Table
      <4>2. s = sluids + 1
        BY SMTT(30), <4>1 DEF RecOf, NewJob
      <4> QED BY SMTT(30), <1>0, <2>3, <3>1, <4>2
    <3>2. CASE i # Candidate(k)
      BY Zenon, <1>0, <2>1, <2>2, <3>2 DEF Table, RecOf, Owner
    <3> QED BY Zenon, <3>1, <3>2
  <2>5. \A i \in Ids, s \in Nat : ImageOf(i, s)' => Owner(i, s)
    BY Zenon, <2>3 DEF ImageOf, RecOf, Owner
  <2>6. \A n \in Nodes : \A p \in slurmd'[n].steps : Owner(p.id, p.sluid)
    BY Zenon, <2>3, StepOwner
  <2>7. sluids' \in Nat /\ sluids <= sluids' /\ net' = net
    BY SMTT(30), <1>0, <2>3
  <2> QED BY Zenon, <1>0, <2>2, <2>4, <2>5, <2>6, <2>7, OwnerStep
<1>2. ASSUME \A i \in Ids, s \in Nat : RecOf(jobs', i, s) => Owner(i, s),
             \A i \in Ids, s \in Nat : ImageOf(i, s)' => Owner(i, s),
             \A m \in net' : m \in net \/ (Request(m) /\ Owner(m.id, m.sluid)),
             UNCHANGED <<slurmd, sluids>>
      PROVE  SluidInv'
  <2>1. \A n \in Nodes : \A p \in slurmd'[n].steps : Owner(p.id, p.sluid)
    BY Zenon, <1>2, StepOwner
  <2>2. \A m : Request(m) => m.type # "REGISTRATION"
    BY Zenon DEF Request, KillTypes
  <2>3. /\ \A w \in net' : Request(w) => w \in net \/ Owner(w.id, w.sluid)
        /\ \A w \in net' : w.type = "REGISTRATION" =>
             w \in net \/ \A i \in Ids, u \in Nat : <<i, u>> \in w.steps => Owner(i, u)
    BY Zenon, <1>2, <2>2
  <2> QED BY Zenon, <1>0, <1>2, <2>1, <2>3, OwnerSame
<1>3. CASE SaveBegins
  <2>1. save'.at = "header" /\ UNCHANGED <<jobs, file, slurmd, net, sluids>>
    BY Zenon, <1>3 DEF SaveBegins
  <2> QED BY Zenon, <1>2, <2>1 DEF ImageOf, RecOf, Owner
<1>4. CASE SaveMovesOld
  <2>1. save'.buffer = [seq |-> save.buffer.seq, jobs |-> Saved(jobs)] /\ file' = NULL
        /\ UNCHANGED <<jobs, slurmd, net, sluids>>
    BY Zenon, <1>0, <1>4 DEF SaveMovesOld, SaveStep, SaveRec
  <2>2. \A i \in Ids, s \in Nat : RecOf(Saved(jobs), i, s) => RecOf(jobs, i, s)
    BY Zenon, <1>0 DEF Saved, RecOf, Table, GoodRecord, JobRecord
  <2>3. \A i \in Ids, s \in Nat : ImageOf(i, s)' => RecOf(Saved(jobs), i, s)
    BY SMTT(30), <2>1 DEF ImageOf, RecOf
  <2> QED BY Zenon, <1>2, <2>1, <2>2, <2>3 DEF Owner
<1>5. CASE SaveMovesNew
  <2>1. save.at = "moved" /\ save'.at = "idle" /\ file' = save.buffer
        /\ UNCHANGED <<jobs, slurmd, net, sluids>>
    BY Zenon, <1>0, <1>5 DEF SaveMovesNew, SaveStep, SaveRec
  <2> QED BY Zenon, <1>2, <2>1 DEF ImageOf, RecOf, Owner
<1>6. CASE Checkpoint \/ Shutdown
  <2>1. save'.at = save.at /\ save'.buffer = save.buffer
        /\ UNCHANGED <<jobs, file, slurmd, net, sluids>>
    BY Zenon, <1>0, <1>6 DEF Checkpoint, Shutdown, ScheduleJobSave, SaveRec
  <2> QED BY Zenon, <1>2, <2>1 DEF ImageOf, RecOf, Owner
<1>7. CASE ShutdownEnds \/ Crash
  <2>1. PICK lost \in SUBSET Losable : net' = Remains(lost)
    BY Zenon, <1>7 DEF ShutdownEnds, Crash, Gone
  <2>2. \A m \in net' : m \in net \/ (Request(m) /\ Owner(m.id, m.sluid))
    <3> SUFFICES ASSUME NEW w \in net, w.type = "LAUNCH"
                 PROVE  /\ Request([w EXCEPT !.dead = TRUE])
                        /\ Owner([w EXCEPT !.dead = TRUE].id, [w EXCEPT !.dead = TRUE].sluid)
      BY Zenon, <2>1 DEF Remains
    <3>1. Owner(w.id, w.sluid)
      BY Zenon DEF Owner, Request
    <3>2. [w EXCEPT !.dead = TRUE].id = w.id /\ [w EXCEPT !.dead = TRUE].sluid = w.sluid
          /\ [w EXCEPT !.dead = TRUE].type = w.type
      BY Zenon, <1>0, RequestFields
    <3> QED BY Zenon, <3>1, <3>2 DEF Request
  <2>3. /\ save' \in {save, NoSave} /\ UNCHANGED <<jobs, file, slurmd, sluids>>
    BY Zenon, <1>7 DEF ShutdownEnds, Crash, Gone
  <2>4. \A i \in Ids, s \in Nat : ImageOf(i, s)' => Owner(i, s)
    BY SMTT(30), <2>3 DEF ImageOf, RecOf, Owner, NoSave
  <2> QED BY Zenon, <1>2, <2>2, <2>3, <2>4 DEF Owner
<1>8. CASE Restart
  <2>1. file # NULL /\ jobs' = file.jobs /\ save' = NoSave
        /\ net' = net \cup SyncNodesToCompJob(file.jobs) /\ UNCHANGED <<file, slurmd, sluids>>
    BY Zenon, <1>8 DEF Restart
  <2>2. \A i \in Ids, s \in Nat : ImageOf(i, s)' => Owner(i, s)
    BY Zenon, <2>1 DEF ImageOf, RecOf, Owner, NoSave
  <2>3. \A m \in SyncNodesToCompJob(file.jobs) : Request(m) /\ Owner(m.id, m.sluid)
    BY SMTT(30), <2>1 DEF SyncNodesToCompJob, Completing, Kill, Request, KillTypes, Owner, ImageOf, RecOf
  <2>4. \A i \in Ids, s \in Nat : RecOf(jobs', i, s) => Owner(i, s)
    BY Zenon, <2>1 DEF Owner, ImageOf
  <2> QED BY Zenon, <1>2, <2>1, <2>2, <2>3, <2>4
<1>9. CASE Tick
  <2>1. UNCHANGED <<jobs, save, file, slurmd, net, sluids>>
    BY Zenon, <1>9 DEF Tick, ctldVars
  <2> QED BY SMTT(30), <2>1 DEF SluidInv, Owner, ImageOf, RecOf, Request
<1> QED BY Zenon, <1>1, <1>3, <1>4, <1>5, <1>6, <1>7, <1>8, <1>9 DEF Saver

\* SLUIDs stay unique.
LEMMA SluidInductive == TypeInv /\ SluidInv /\ [Next]_vars => SluidInv'
<1> SUFFICES ASSUME TypeInv, SluidInv, [Next]_vars PROVE SluidInv'
  BY Zenon
<1>1. CASE UNCHANGED vars
  <2>1. UNCHANGED <<jobs, save, file, slurmd, net, sluids>>
    BY Zenon, <1>1 DEF vars, ctldVars
  <2> QED BY SMTT(30), <2>1 DEF SluidInv, Owner, ImageOf, RecOf, Request
<1> QED
  BY Zenon, <1>1, GlobalActsOwner, JobActsOwner, NodeActsOwner, CtldActsOwner, SlurmdActsOwner DEF Next

\* There are none at first.
LEMMA InitSluid == Init => SluidInv
BY SMTT(30) DEF Init, SluidInv, Owner, ImageOf, RecOf, NoSave

-----------------------------------------------------------------------------
(* Missing jobs.                                                           *)

\* A job that has been quiet since it was started has no launch request under
\* way, and time_last_active is not saved.
Woken(t) == \A i \in Ids : t[i] # NULL => ~t[i].quiet
QuietInv ==
  /\ \A i \in Ids : Running(jobs[i]) /\ jobs[i].quiet =>
       \A m \in net : m.type = "LAUNCH" => m.sluid # jobs[i].sluid
  /\ file # NULL => Woken(file.jobs)
  /\ save.at = "moved" => Woken(save.buffer.jobs)

MissingInv == QuietInv /\ MissingIsGone

\* MissingIsGone in other words: of a job that has long been quiet, a
\* registration of its node lists every slurmstepd.
LEMMA MissingMeans ==
  MissingIsGone <=>
    \A m \in net, i \in Ids :
      m.type = "REGISTRATION" /\ Running(jobs[i]) /\ jobs[i].quiet /\ jobs[i].node = m.node =>
        \A p \in slurmd[m.node].steps :
          p.sluid = jobs[i].sluid => \E x \in m.steps : x[2] = jobs[i].sluid
BY Zenon DEF MissingIsGone, Missing

\* A step keeps both, if a record that runs and is quiet was so before, no
\* request that it waits for and no registration is added, and no slurmstepd is.
LEMMA MissingKept ==
  ASSUME TypeInv, MissingInv,
         \A i \in Ids : Running(jobs'[i]) /\ jobs'[i].quiet =>
            /\ Running(jobs[i]) /\ jobs[i].quiet /\ jobs'[i].node = jobs[i].node
            /\ jobs'[i].sluid = jobs[i].sluid,
         \A m \in net' :
            \/ m \in net \/ m.type \notin {"LAUNCH", "REGISTRATION"}
            \/ /\ m.type = "LAUNCH"
               /\ \A i \in Ids : Running(jobs[i]) /\ jobs[i].quiet => m.sluid # jobs[i].sluid,
         \A n \in Nodes : \A p \in slurmd'[n].steps :
            (\E q \in slurmd[n].steps : p.sluid = q.sluid)
            \/ \A i \in Ids : Running(jobs[i]) /\ jobs[i].quiet => p.sluid # jobs[i].sluid,
         file' # NULL => Woken(file'.jobs),
         save'.at = "moved" => Woken(save'.buffer.jobs)
  PROVE  MissingInv'
<1>2. ASSUME NEW m \in net', NEW i \in Ids, NEW p \in slurmd'[m.node].steps,
             m.type = "REGISTRATION", Running(jobs'[i]), jobs'[i].quiet,
             jobs'[i].node = m.node, p.sluid = jobs'[i].sluid
      PROVE  \E x \in m.steps : x[2] = jobs'[i].sluid
  <2>1. m \in net
    BY Zenon, <1>2
  <2>2. m.node \in Nodes
    BY Zenon, <2>1, RequestFields DEF TypeInv
  <2>3. Running(jobs[i]) /\ jobs[i].quiet /\ jobs[i].node = m.node /\ p.sluid = jobs[i].sluid
    BY Zenon, <1>2
  <2>4. PICK q \in slurmd[m.node].steps : p.sluid = q.sluid
    BY Zenon, <2>2, <2>3
  <2>5. \E x \in m.steps : x[2] = jobs[i].sluid
    <3>1. q.sluid = jobs[i].sluid /\ m.type = "REGISTRATION" /\ MissingIsGone
      BY Zenon, <1>2, <2>3, <2>4 DEF MissingInv
    <3> QED BY <2>1, <2>3, <2>4, <3>1, MissingMeans, Zenon
  <2> QED BY Zenon, <1>2, <2>3, <2>5
<1>3. MissingIsGone'
  BY SMTT(30), <1>2 DEF MissingIsGone, Missing
<1>4. \A i \in Ids : Running(jobs'[i]) /\ jobs'[i].quiet =>
       \A m \in net' : m.type = "LAUNCH" => m.sluid # jobs'[i].sluid
  BY DEF QuietInv, MissingInv
<1> QED BY Zenon, <1>3, <1>4 DEF MissingInv, QuietInv, Woken

\* What the handlers do to a record that then runs and is quiet.
LEMMA QuietKept ==
  ASSUME NEW r \in GoodRecord, r # NULL, NEW t,
         \/ \E b \in BOOLEAN : t = JobComplete(r, b)
         \/ t \in {LaunchFailed(r), BatchRequeueFini(r), [r EXCEPT !.cg = FALSE],
                   [r EXCEPT !.quiet = FALSE], [r EXCEPT !.held = FALSE]},
         Running(t), t.quiet
  PROVE  Running(r) /\ r.quiet /\ t.node = r.node /\ t.sluid = r.sluid
<1>0. r \in JobRecord /\ r.state \in {"PENDING", "RUNNING", "DONE"}
  BY Zenon DEF GoodRecord, JobRecord
<1>1. ASSUME NEW b \in BOOLEAN, t = JobComplete(r, b) PROVE t = r
  BY Zenon, <1>0, <1>1 DEF JobComplete, Ended, JobRecord, Running
<1>2. t # BatchRequeueFini(r) /\ t # BatchRequeueFini([r EXCEPT !.held = TRUE])
  BY Zenon DEF BatchRequeueFini, NewJob, Running
<1>3. t # Ended(r, "DONE") /\ t # [Ended(r, "PENDING") EXCEPT !.held = TRUE]
      /\ t # [r EXCEPT !.state = "DONE"] /\ t # [r EXCEPT !.state = "PENDING", !.held = TRUE]
  <2>1. /\ Ended(r, "DONE").state = "DONE"
        /\ [Ended(r, "PENDING") EXCEPT !.held = TRUE].state = "PENDING"
        /\ [r EXCEPT !.state = "DONE"].state = "DONE"
        /\ [r EXCEPT !.state = "PENDING", !.held = TRUE].state = "PENDING"
    BY Zenon, <1>0 DEF Ended, JobRecord
  <2>2. t.state = "RUNNING"
    BY Zenon DEF Running
  <2> QED BY Zenon, <2>1, <2>2
<1>4. t = LaunchFailed(r) => t = r
  BY Zenon, <1>2, <1>3 DEF LaunchFailed
<1>5. t \in {[r EXCEPT !.cg = FALSE], [r EXCEPT !.quiet = FALSE], [r EXCEPT !.held = FALSE]}
      => t.state = r.state /\ t.node = r.node /\ t.sluid = r.sluid /\ (t.quiet => r.quiet)
  BY Zenon, <1>0 DEF JobRecord
<1> QED BY Zenon, <1>1, <1>2, <1>4, <1>5 DEF Running

\* A handler that only sends kills, and changes records as above.
LEMMA MissingHandler ==
  ASSUME TypeInv, MissingInv, NEW t, NEW b, Handle(t, b),
         \A i \in Ids : Running(t[i]) /\ t[i].quiet =>
            /\ Running(jobs[i]) /\ jobs[i].quiet /\ t[i].node = jobs[i].node
            /\ t[i].sluid = jobs[i].sluid,
         \A m \in net' :
            \/ m \in net \/ m.type \notin {"LAUNCH", "REGISTRATION"}
            \/ /\ m.type = "LAUNCH"
               /\ \A i \in Ids : Running(jobs[i]) /\ jobs[i].quiet => m.sluid # jobs[i].sluid,
         \A n \in Nodes : slurmd'[n].steps \subseteq slurmd[n].steps
  PROVE  MissingInv'
<1>1. jobs' = t /\ save'.at = save.at /\ save'.buffer = save.buffer /\ file' = file
  BY Zenon, HandleImages DEF Handle, TypeInv, CtldType, SaveType
<1>2. (file' # NULL => Woken(file'.jobs)) /\ (save'.at = "moved" => Woken(save'.buffer.jobs))
  BY Zenon, <1>1 DEF MissingInv, QuietInv
<1>3. \A n \in Nodes : \A p \in slurmd'[n].steps : \E q \in slurmd[n].steps : p.sluid = q.sluid
  BY Zenon
<1> QED BY Zenon, <1>1, <1>2, <1>3, MissingKept

\* A request of deallocate_nodes() is neither a launch nor a registration.
LEMMA DeallocateKills ==
  \A i \in Ids : \A m \in Deallocate(i) : m.type \notin {"LAUNCH", "REGISTRATION"}
BY DEF Deallocate, Kill

\* The steps of slurmctld about one job.  TimePasses: no launch and no
\* registration is under way.
LEMMA JobActsMissing ==
  ASSUME TypeInv, SluidInv, MissingInv, NEW i \in Ids,
         \/ \E n \in Nodes : Start(i, n)
         \/ Release(i) \/ ReKillJob(i) \/ PurgeOldJob(i) \/ TimePasses(i)
  PROVE  MissingInv'
<1>0. jobs \in Table /\ clock \in Nat
  BY Zenon DEF TypeInv, CtldType
<1>1. jobs[i] # NULL => jobs[i] \in GoodRecord
  BY Zenon, <1>0 DEF Table
<1>2. ASSUME NEW n \in Nodes, Start(i, n) PROVE MissingInv'
  <2> DEFINE r == [jobs[i] EXCEPT !.state = "RUNNING", !.node = n, !.start = clock,
                                  !.quiet = FALSE]
             m == [type |-> "LAUNCH", id |-> i, node |-> n, sluid |-> jobs[i].sluid,
                   ctime |-> clock, dead |-> FALSE]
             t == [jobs EXCEPT ![i] = r]
  <2>1. jobs[i] \in GoodRecord /\ jobs[i] # NULL /\ jobs[i].state = "PENDING"
    BY Zenon, <1>1, <1>2 DEF Start
  <2>2. ~r.quiet
    BY Zenon, <2>1 DEF GoodRecord, JobRecord
  <2>3. m.type = "LAUNCH" /\ m.sluid = jobs[i].sluid
    BY Zenon
  <2>4. Handle(t, TRUE) /\ net' = net \cup {m} /\ UNCHANGED slurmd
    BY ZenonT(30), <1>2 DEF Start
  <2>5. \A j \in Ids : Running(jobs[j]) => jobs[i].sluid # jobs[j].sluid
    BY Zenon, <2>1, FindOne DEF Find, Running
  <2> HIDE DEF r, m
  <2>6. \A j \in Ids : Running(t[j]) /\ t[j].quiet => t[j] = jobs[j]
    BY Zenon, <1>0, <2>2 DEF Table
  <2> HIDE DEF t
  <2> QED BY Zenon, <2>3, <2>4, <2>5, <2>6, MissingHandler
<1>3. ASSUME NEW r, NEW b, Handle([jobs EXCEPT ![i] = r], b),
             r = NULL \/ (Running(r) /\ r.quiet => /\ Running(jobs[i]) /\ jobs[i].quiet
                                                   /\ r.node = jobs[i].node /\ r.sluid = jobs[i].sluid),
             \A m \in net' : m \in net \/ m.type \notin {"LAUNCH", "REGISTRATION"},
             UNCHANGED slurmd
      PROVE  MissingInv'
  <2> DEFINE t == [jobs EXCEPT ![i] = r]
  <2>1. \A j \in Ids : Running(t[j]) /\ t[j].quiet =>
            /\ Running(jobs[j]) /\ jobs[j].quiet /\ t[j].node = jobs[j].node
            /\ t[j].sluid = jobs[j].sluid
    BY Zenon, <1>0, <1>3 DEF Table, Running
  <2>2. Handle(t, b)
    BY Zenon, <1>3
  <2> HIDE DEF t
  <2> QED BY Zenon, <1>3, <2>1, <2>2, MissingHandler
<1>4. CASE Release(i)
  BY ZenonT(30), <1>1, <1>3, <1>4, QuietKept DEF Release
<1>5. CASE ReKillJob(i)
  <2>1. jobs[i] \in GoodRecord /\ jobs[i] # NULL
    BY Zenon, <1>1, <1>5 DEF ReKillJob, Completing
  <2>2. \A m \in net' : m \in net \/ m.type \notin {"LAUNCH", "REGISTRATION"}
    BY SMTT(30), <1>5 DEF ReKillJob, Kill
  <2> QED BY Zenon, <1>3, <1>5, <2>1, <2>2, QuietKept DEF ReKillJob
<1>6. CASE PurgeOldJob(i)
  BY Zenon, <1>3, <1>6 DEF PurgeOldJob
<1>7. CASE TimePasses(i)
  <2> DEFINE t == [jobs EXCEPT ![i] = [jobs[i] EXCEPT !.quiet = TRUE]]
             about(m) == IF m.type = "REGISTRATION" THEN m.node = jobs[i].node
                         ELSE m.sluid = jobs[i].sluid
  <2>1. /\ jobs' = t /\ UNCHANGED <<slurmd, net>> /\ jobs[i] \in GoodRecord /\ jobs[i] # NULL
        /\ save'.at = save.at /\ save'.buffer = save.buffer /\ file' = file
    BY Zenon, <1>1, <1>7, HandleImages DEF TimePasses, Handle, TypeInv, CtldType, SaveType
  <2>2. \A m \in Losable : ~about(m)
    BY Zenon, <1>7 DEF TimePasses
  <2>3. \A m \in net : (m.type = "REGISTRATION" => m.node # jobs[i].node)
                       /\ (m.type = "LAUNCH" => m.sluid # jobs[i].sluid)
    BY Zenon, <2>2 DEF Losable, KillTypes
  <2>4. /\ jobs'[i].node = jobs[i].node /\ jobs'[i].sluid = jobs[i].sluid
        /\ \A j \in Ids : j # i => jobs'[j] = jobs[j]
    BY Zenon, <1>0, <2>1 DEF Table, GoodRecord, JobRecord
  <2> HIDE DEF t
  <2>5. QuietInv'
    <3>1. QuietInv
      BY Zenon DEF MissingInv
    <3>2. \A j \in Ids : Running(jobs'[j]) /\ jobs'[j].quiet =>
            \A m \in net : m.type = "LAUNCH" => m.sluid # jobs'[j].sluid
      BY Zenon, <2>3, <2>4, <3>1 DEF QuietInv
    <3>3. file' # NULL => Woken(file'.jobs)
      BY Zenon, <2>1, <3>1 DEF QuietInv
    <3>4. save'.at = "moved" => Woken(save'.buffer.jobs)
      BY Zenon, <2>1, <3>1 DEF QuietInv
    <3>5. net' = net
      BY Zenon, <2>1
    <3> QED BY Zenon, <3>2, <3>3, <3>4, <3>5 DEF QuietInv, Woken
  <2>6. MissingIsGone'
    <3> SUFFICES ASSUME NEW m \in net', m.type = "REGISTRATION",
                        NEW j \in Missing(m.node, {x[2] : x \in m.steps})',
                        NEW p \in slurmd'[m.node].steps
                 PROVE  p.sluid # jobs'[j].sluid
      BY Zenon DEF MissingIsGone
    <3>1. j \in Ids /\ Running(jobs'[j]) /\ jobs'[j].node = m.node /\ jobs'[j].quiet
          /\ jobs'[j].sluid \notin {x[2] : x \in m.steps} /\ m \in net
      BY Zenon, <2>1 DEF Missing
    <3>2. j # i
      BY Zenon, <2>3, <2>4, <3>1
    <3>3. j \in Missing(m.node, {x[2] : x \in m.steps})
      BY ZenonT(30), <2>4, <3>1, <3>2 DEF Missing
    <3>4. p \in slurmd[m.node].steps /\ jobs'[j] = jobs[j]
      BY Zenon, <2>1, <2>4, <3>1, <3>2
    <3> QED BY Zenon, <3>1, <3>3, <3>4 DEF MissingInv, MissingIsGone
  <2> QED BY Zenon, <2>5, <2>6 DEF MissingInv
<1> QED BY Zenon, <1>2, <1>4, <1>5, <1>6, <1>7

\* The messages slurmctld handles.
LEMMA CtldActsMissing ==
  ASSUME TypeInv, SluidInv, MissingInv, NEW m \in net,
         CtldReceives(m) \/ NoResponse(m) \/ LoseMessage(m)
  PROVE  MissingInv'
<1>0. jobs \in Table /\ net \subseteq Message /\ m \in Message /\ case.requeue \in BOOLEAN
  BY Zenon DEF TypeInv, CtldType, CaseType
<1>1. \A i \in Ids : jobs[i] # NULL => jobs[i] \in GoodRecord
  BY Zenon, <1>0 DEF Table
<1>3. \A s : Find(s) \subseteq Ids /\ \A i \in Find(s) : jobs[i] # NULL /\ jobs[i] \in GoodRecord
  BY Zenon, <1>1 DEF Find
<1>4. CASE EpilogComplete(m)
  <2> DEFINE hit  == {i \in Find(m.sluid) : jobs[i].cg /\ jobs[i].node = m.node}
             fini == {i \in hit : jobs[i].state = "PENDING"}
             t == [i \in Ids |-> CASE i \in fini -> BatchRequeueFini(jobs[i])
                                   [] i \in hit \ fini -> [jobs[i] EXCEPT !.cg = FALSE]
                                   [] OTHER -> jobs[i]]
  <2>1. \A i \in Ids : \/ i \in Find(m.sluid) /\ t[i] \in {BatchRequeueFini(jobs[i]), [jobs[i] EXCEPT !.cg = FALSE]}
                       \/ t[i] = jobs[i]
    BY Zenon
  <2>2. Handle(t, hit # {} /\ ctld = "up") /\ net' = net \ {m} /\ UNCHANGED slurmd
    BY Zenon, <1>4 DEF EpilogComplete
  <2> HIDE DEF t, fini, hit
  <2>3. \A i \in Ids : Running(t[i]) /\ t[i].quiet =>
            /\ Running(jobs[i]) /\ jobs[i].quiet /\ t[i].node = jobs[i].node
            /\ t[i].sluid = jobs[i].sluid
    BY SMTT(30), <1>3, <2>1, QuietKept
  <2> QED BY Zenon, <2>2, <2>3, MissingHandler
<1>5. CASE JobRequeue(m)
  <2> DEFINE hit  == Find(m.sluid)
             t == [i \in Ids |-> IF i \in hit THEN LaunchFailed(jobs[i]) ELSE jobs[i]]
  <2>1. \A i \in Ids : (i \in hit /\ t[i] = LaunchFailed(jobs[i])) \/ t[i] = jobs[i]
    BY Zenon
  <2>2. Handle(t, hit # {}) /\ net' = (net \ {m}) \cup UNION {Deallocate(i) : i \in hit}
        /\ UNCHANGED slurmd
    BY Zenon, <1>5 DEF JobRequeue
  <2> HIDE DEF t
  <2>3. \A i \in Ids : Running(t[i]) /\ t[i].quiet =>
            /\ Running(jobs[i]) /\ jobs[i].quiet /\ t[i].node = jobs[i].node
            /\ t[i].sluid = jobs[i].sluid
    BY SMTT(30), <1>3, <2>1, QuietKept
  <2>4. \A w \in net' : w \in net \/ w.type \notin {"LAUNCH", "REGISTRATION"}
    BY Zenon, <1>3, <2>2, DeallocateKills
  <2> HIDE DEF hit
  <2> QED BY Zenon, <2>2, <2>3, <2>4, MissingHandler
<1>6. ASSUME NEW b \in BOOLEAN, NEW left, AgentEnds(m, b, left),
             \A w \in left : m.type = "LAUNCH" /\ w.type = "LAUNCH" /\ w.sluid = m.sluid
      PROVE  MissingInv'
  <2> DEFINE hit == Find(m.sluid)
             t == [i \in Ids |-> IF i \in hit THEN JobComplete(jobs[i], b) ELSE jobs[i]]
  <2>1. \A i \in Ids : (i \in hit /\ t[i] = JobComplete(jobs[i], b)) \/ t[i] = jobs[i]
    BY Zenon
  <2>2. Handle(t, FALSE) /\ net' = (net \ {m}) \cup left \cup UNION {Deallocate(i) : i \in hit}
        /\ UNCHANGED slurmd
    BY Zenon, <1>6 DEF AgentEnds
  <2> HIDE DEF t
  <2>3. \A i \in Ids : Running(t[i]) /\ t[i].quiet =>
            /\ Running(jobs[i]) /\ jobs[i].quiet /\ t[i].node = jobs[i].node
            /\ t[i].sluid = jobs[i].sluid
    BY SMTT(30), <1>3, <1>6, <2>1, QuietKept
  <2>4. \A w \in left : \A i \in Ids :
          Running(jobs[i]) /\ jobs[i].quiet => w.sluid # jobs[i].sluid
    BY Zenon, <1>6 DEF MissingInv, QuietInv
  <2>5. \A w \in net' :
            \/ w \in net \/ w.type \notin {"LAUNCH", "REGISTRATION"}
            \/ /\ w.type = "LAUNCH"
               /\ \A i \in Ids : Running(jobs[i]) /\ jobs[i].quiet => w.sluid # jobs[i].sluid
    BY <1>3, <1>6, <2>2, <2>4, DeallocateKills
  <2> HIDE DEF hit
  <2> QED BY Zenon, <2>2, <2>3, <2>5, MissingHandler
<1>7. CASE LaunchRefused(m)
  <2>1. PICK left \in {{}} : AgentEnds(m, FALSE, left)
    BY Zenon, <1>7 DEF LaunchRefused
  <2> QED BY Zenon, <1>6, <2>1
<1>8. CASE NoResponse(m)
  <2> DEFINE w == [m EXCEPT !.dead = TRUE]
  <2>1. m.type = "LAUNCH"
    BY Zenon, <1>8 DEF NoResponse
  <2>2. w.type = m.type /\ w.sluid = m.sluid
    BY Zenon, <1>0, <2>1, RequestFields
  <2>3. PICK left \in {{}, {w}} : AgentEnds(m, TRUE, left)
    BY Zenon, <1>8 DEF NoResponse
  <2> HIDE DEF w
  <2> QED BY Zenon, <1>6, <2>1, <2>2, <2>3
<1>9. CASE LoseMessage(m)
  <2>1. net' \subseteq net /\ UNCHANGED <<jobs, save, file, slurmd>>
    BY Zenon, <1>9 DEF LoseMessage, ctldVars
  <2> QED BY Zenon, <2>1, MissingKept DEF MissingInv, QuietInv
<1>10. CASE Registration(m)
  <2> DEFINE listed == {x[2] : x \in m.steps}
             gone   == Missing(m.node, listed)
             seen(r) == Running(r) /\ r.node = m.node /\ r.sluid \in listed
             t == [i \in Ids |-> CASE i \in gone -> JobComplete(jobs[i], case.requeue)
                                   [] seen(jobs[i]) -> [jobs[i] EXCEPT !.quiet = FALSE]
                                   [] OTHER -> jobs[i]]
  <2>1. \A i \in Ids : \/ t[i] = JobComplete(jobs[i], case.requeue) /\ jobs[i] # NULL
                       \/ t[i] = [jobs[i] EXCEPT !.quiet = FALSE] /\ jobs[i] # NULL
                       \/ t[i] = jobs[i]
    BY Zenon DEF Missing, Running
  <2>2. m.steps \subseteq Ids \X Nat /\ m.node \in Nodes
    BY Zenon, <1>0, <1>10, RequestFields DEF Registration
  <2>3. ASSUME NEW x \in m.steps, NEW w \in Answer(m.node, x[1], x[2])
        PROVE  w.type \notin {"LAUNCH", "REGISTRATION"}
    <3>1. x[1] \in Ids /\ x[2] \in Nat
      BY Zenon, <2>2
    <3> QED BY SMTT(30), <2>2, <3>1, AnswerOwner DEF KillTypes
  <2>4. Handle(t, FALSE) /\ UNCHANGED slurmd
        /\ net' = (net \ {m}) \cup (UNION {Answer(m.node, x[1], x[2]) : x \in m.steps})
                              \cup UNION {Deallocate(i) : i \in gone}
    BY Zenon, <1>10 DEF Registration
  <2>5. gone \subseteq Ids
    BY Zenon DEF Missing
  <2> HIDE DEF t, gone, listed
  <2>6. \A w \in net' : w \in net \/ w.type \notin {"LAUNCH", "REGISTRATION"}
    BY Zenon, <2>3, <2>4, <2>5, DeallocateKills
  <2>7. \A i \in Ids : Running(t[i]) /\ t[i].quiet =>
            /\ Running(jobs[i]) /\ jobs[i].quiet /\ t[i].node = jobs[i].node
            /\ t[i].sluid = jobs[i].sluid
    <3> SUFFICES ASSUME NEW i \in Ids, Running(t[i]), t[i].quiet, t[i] # jobs[i]
                 PROVE  /\ Running(jobs[i]) /\ jobs[i].quiet /\ t[i].node = jobs[i].node
                        /\ t[i].sluid = jobs[i].sluid
      BY Zenon
    <3>1. jobs[i] # NULL /\ jobs[i] \in GoodRecord
      BY ZenonT(30), <1>1, <2>1
    <3>2. CASE t[i] = JobComplete(jobs[i], case.requeue)
      BY <1>0, <3>1, <3>2, QuietKept
    <3>3. CASE t[i] = [jobs[i] EXCEPT !.quiet = FALSE]
      BY Zenon, <3>1, <3>3, QuietKept
    <3> QED BY Zenon, <2>1, <3>2, <3>3
  <2> QED BY Zenon, <2>4, <2>6, <2>7, MissingHandler
<1> QED BY Zenon, <1>4, <1>5, <1>7, <1>8, <1>9, <1>10 DEF CtldReceives

\* What slurmd does: a launch request of a job that is quiet is not under way.
LEMMA SlurmdStepMissing ==
  ASSUME TypeInv, MissingInv, NEW n \in Nodes, NEW d, NEW S, SlurmdStep(n, d, S),
         \A p \in d.steps :
           (\E q \in slurmd[n].steps : p.sluid = q.sluid)
           \/ \A i \in Ids : Running(jobs[i]) /\ jobs[i].quiet => p.sluid # jobs[i].sluid,
         \A w \in S : w \in net \/ w.type \notin {"LAUNCH", "REGISTRATION"}
  PROVE  MissingInv'
<1>1. /\ UNCHANGED <<jobs, save, file>> /\ net' = S
      /\ slurmd' = [slurmd EXCEPT ![n] = d] /\ slurmd \in [Nodes -> Slurmd]
  BY Zenon DEF SlurmdStep, ctldVars, TypeInv
<1>2. \A k \in Nodes : \A p \in slurmd'[k].steps :
        (\E q \in slurmd[k].steps : p.sluid = q.sluid)
        \/ \A i \in Ids : Running(jobs[i]) /\ jobs[i].quiet => p.sluid # jobs[i].sluid
  BY Zenon, <1>1
<1> QED BY Zenon, <1>1, <1>2, MissingKept DEF MissingInv, QuietInv

\* What slurmd does with requests.
LEMMA SlurmdActsMissing ==
  ASSUME TypeInv, MissingInv, NEW m \in net,
         SlurmdReceives(m) \/ SlurmdKills(m) \/ LaunchUnanswered(m)
  PROVE  MissingInv'
<1>1. m \in Message /\ m.node \in Nodes /\ slurmd[m.node] \in Slurmd
  BY Zenon, RequestFields DEF TypeInv
<1> DEFINE c == slurmd[m.node]
<1>3. \A w \in {Report("REQUEUE", m), Report("REFUSED", m), Report("EPILOG", m)} :
        w.type \notin {"LAUNCH", "REGISTRATION"}
  BY SMTT(30) DEF Report
<1>4. ASSUME m.type = "LAUNCH", LaunchBatchJob(m) \/ LaunchUnanswered(m) PROVE MissingInv'
  <2> DEFINE d == Reissued(c, m.sluid, m.ctime)
  <2>1. d \in Slurmd /\ d.steps = c.steps
    BY <1>1, SlurmdTypes, StepsAfter
  <2> HIDE DEF d
  <2>2. Launched(d, m).steps = c.steps \cup {[id |-> m.id, sluid |-> m.sluid, over |-> FALSE]}
    BY <2>1, StepsAfter
  <2>3. \A p \in Launched(d, m).steps :
           (\E q \in c.steps : p.sluid = q.sluid)
           \/ \A i \in Ids : Running(jobs[i]) /\ jobs[i].quiet => p.sluid # jobs[i].sluid
    <3>1. \A i \in Ids : Running(jobs[i]) /\ jobs[i].quiet => m.sluid # jobs[i].sluid
      BY Zenon, <1>4 DEF MissingInv, QuietInv
    <3>2. \A p \in Launched(d, m).steps : p \in c.steps \/ p.sluid = m.sluid
      BY SMTT(30), <2>2
    <3> QED BY Zenon, <3>1, <3>2
  <2>4. \/ SlurmdStep(m.node, c, (net \ {m}) \cup {Report("REQUEUE", m)})
        \/ SlurmdStep(m.node, d, (net \ {m}) \cup {Report("REQUEUE", m)})
        \/ SlurmdStep(m.node, d, net \ {m})
        \/ SlurmdStep(m.node, d, (net \ {m}) \cup {Report("REFUSED", m)})
        \/ SlurmdStep(m.node, Launched(d, m), net \ {m})
    BY Zenon, <1>4 DEF LaunchBatchJob, LaunchUnanswered, d
  <2>5. c = slurmd[m.node]
    BY Zenon
  <2>6. ASSUME NEW e, NEW w, SlurmdStep(m.node, e, (net \ {m}) \cup {w}) \/ SlurmdStep(m.node, e, net \ {m}),
               w.type \notin {"LAUNCH", "REGISTRATION"},
               \A p \in e.steps :
                 (\E q \in c.steps : p.sluid = q.sluid)
                 \/ \A i \in Ids : Running(jobs[i]) /\ jobs[i].quiet => p.sluid # jobs[i].sluid
        PROVE  MissingInv'
    <3>1. \A x \in (net \ {m}) \cup {w} : x \in net \/ x.type \notin {"LAUNCH", "REGISTRATION"}
      BY Zenon, <2>6
    <3>2. \A x \in net \ {m} : x \in net
      BY Zenon
    <3>3. \A p \in e.steps :
            (\E q \in slurmd[m.node].steps : p.sluid = q.sluid)
            \/ \A i \in Ids : Running(jobs[i]) /\ jobs[i].quiet => p.sluid # jobs[i].sluid
      BY Zenon, <2>6
    <3>4. CASE SlurmdStep(m.node, e, (net \ {m}) \cup {w})
      BY Zenon, <1>1, <3>1, <3>3, <3>4, SlurmdStepMissing
    <3>5. CASE SlurmdStep(m.node, e, net \ {m})
      BY Zenon, <1>1, <3>2, <3>3, <3>5, SlurmdStepMissing
    <3> QED BY Zenon, <2>6, <3>4, <3>5
  <2> HIDE DEF c
  <2> QED BY Zenon, <1>3, <2>1, <2>3, <2>4, <2>6
<1>5. ASSUME m.type \in KillTypes, SlurmdReceives(m) \/ SlurmdKills(m) PROVE MissingInv'
  <2> DEFINE v == Revoked(c, m)
             d == [v EXCEPT !.steps = {p \in @ : p.id = m.id => p.over}]
             w == [m EXCEPT !.begun = TRUE]
  <2>0. m.sluid \in Nat /\ m.time \in Nat /\ w.type = m.type /\ m.type # "LAUNCH"
        /\ m.type # "REGISTRATION"
    BY Zenon, <1>1, <1>5, RequestFields DEF KillTypes
  <2>2. v \in Slurmd /\ v.steps = c.steps
    BY Zenon, <1>1, <2>0, SlurmdTypes, StepsAfter
  <2>3. d \in Slurmd /\ d.steps \subseteq c.steps
    <3> HIDE DEF v
    <3> QED BY Zenon, <2>2 DEF Slurmd
  <2>4. Cleaned(d, m).steps \subseteq c.steps /\ Cleaned(c, m).steps = c.steps
    BY Zenon, <1>1, <2>3, StepsAfter
  <2>5. \A p \in Killed(v, m.id).steps : \E q \in c.steps : p.sluid = q.sluid
    BY <2>2, StepsAfter
  <2>6. \A p \in Killed(c, m.id).steps : \E q \in c.steps : p.sluid = q.sluid
    BY <1>1, StepsAfter
  <2>7. \/ SlurmdStep(m.node, Cleaned(d, m), net \ {m})
        \/ SlurmdStep(m.node, d, (net \ {m}) \cup {w})
        \/ SlurmdStep(m.node, c, net \ {m})
        \/ SlurmdStep(m.node, Killed(v, m.id), (net \ {m}) \cup {w})
        \/ SlurmdStep(m.node, Killed(c, m.id), net)
        \/ SlurmdStep(m.node, Cleaned(c, m), (net \ {m}) \cup {})
        \/ SlurmdStep(m.node, Cleaned(c, m), (net \ {m}) \cup {Report("EPILOG", m)})
    BY <1>5, <2>0, Zenon DEF SlurmdReceives, SlurmdKills, LaunchBatchJob, AbortBegins,
         TerminateBegins, KillAgain, KillEnds
  <2>8. c = slurmd[m.node] /\ w.type \notin {"LAUNCH", "REGISTRATION"}
    BY Zenon, <2>0
  <2>9. ASSUME NEW e, NEW S, SlurmdStep(m.node, e, S),
               \A x \in S : x \in net \/ x.type \notin {"LAUNCH", "REGISTRATION"},
               \A p \in e.steps : \E q \in c.steps : p.sluid = q.sluid
        PROVE  MissingInv'
    <3> HIDE DEF c
    <3> QED BY Zenon, <1>1, <2>8, <2>9, SlurmdStepMissing
  <2> HIDE DEF c, v, d, w
  <2>10. \A x \in {Report("EPILOG", m), w} :
           \A y \in (net \ {m}) \cup {x} : y \in net \/ y.type \notin {"LAUNCH", "REGISTRATION"}
    BY Zenon, <1>3, <2>8
  <2>11. \A y \in (net \ {m}) \cup {} : y \in net
    BY Zenon
  <2> QED BY Zenon, <2>3, <2>4, <2>5, <2>6, <2>7, <2>9, <2>10, <2>11
<1>6. SlurmdReceives(m) \/ SlurmdKills(m) =>
        (m.type = "LAUNCH" /\ LaunchBatchJob(m)) \/ m.type \in KillTypes
  BY Zenon DEF SlurmdReceives, SlurmdKills, LaunchBatchJob, AbortBegins, TerminateBegins, KillAgain,
     KillEnds, KillTypes
<1>7. LaunchUnanswered(m) => m.type = "LAUNCH"
  BY Zenon DEF LaunchUnanswered
<1> QED BY Zenon, <1>4, <1>5, <1>6, <1>7

\* The steps about a node: a registration lists what there is.
LEMMA NodeActsMissing ==
  ASSUME TypeInv, MissingInv, NEW n \in Nodes,
         \/ SlurmdRegisters(n)
         \/ \E p \in slurmd[n].steps :
              ScriptEnds(n, p) \/ \E again \in BOOLEAN : CompleteBatchScript(n, p, again)
  PROVE  MissingInv'
<1>0. jobs \in Table /\ slurmd \in [Nodes -> Slurmd] /\ slurmd[n] \in Slurmd
  BY Zenon DEF TypeInv, CtldType
<1>1. CASE SlurmdRegisters(n)
  <2> DEFINE m == [type |-> "REGISTRATION", node |-> n,
                   steps |-> {<<p.id, p.sluid>> : p \in slurmd[n].steps}]
  <2>1. net' = net \cup {m} /\ UNCHANGED <<jobs, save, file, slurmd>>
    BY ZenonT(30), <1>1 DEF SlurmdRegisters, ctldVars
  <2>2. QuietInv'
    <3>1. QuietInv
      BY Zenon DEF MissingInv
    <3>2. \A j \in Ids : Running(jobs[j]) /\ jobs[j].quiet =>
            \A x \in net' : x.type = "LAUNCH" => x.sluid # jobs[j].sluid
      BY SMTT(30), <2>1, <3>1 DEF QuietInv
    <3> QED BY Zenon, <2>1, <3>1, <3>2 DEF QuietInv, Woken
  <2>3. MissingIsGone'
    <3>1. \A p \in slurmd[n].steps : \E x \in m.steps : x[2] = p.sluid
      <4> SUFFICES ASSUME NEW p \in slurmd[n].steps PROVE <<p.id, p.sluid>> \in m.steps
        BY Zenon
      <4> QED BY Zenon
    <3>2. m.node = n
      BY Zenon
    <3> HIDE DEF m
    <3>3. \A i \in Missing(n, {x[2] : x \in m.steps}) : \A p \in slurmd[n].steps : p.sluid # jobs[i].sluid
      BY Zenon, <3>1 DEF Missing
    <3> QED BY SMTT(30), <2>1, <3>2, <3>3 DEF MissingInv, MissingIsGone, Missing
  <2> QED BY Zenon, <2>2, <2>3 DEF MissingInv
<1>2. ASSUME NEW p \in slurmd[n].steps, ScriptEnds(n, p) PROVE MissingInv'
  <2> DEFINE d == [slurmd[n] EXCEPT !.steps = (@ \ {p}) \cup {[p EXCEPT !.over = TRUE]}]
  <2>1. SlurmdStep(n, d, net)
    BY Zenon, <1>2 DEF ScriptEnds
  <2>2. p \in Stepd
    BY Zenon, <1>0 DEF Slurmd
  <2>3. \A q \in d.steps : \E q1 \in slurmd[n].steps : q.sluid = q1.sluid
    BY Zenon, <1>0, <2>2 DEF Slurmd, Stepd
  <2> HIDE DEF d
  <2> QED BY Zenon, <2>1, <2>3, SlurmdStepMissing
<1>3. ASSUME NEW p \in slurmd[n].steps, NEW again \in BOOLEAN, CompleteBatchScript(n, p, again)
      PROVE  MissingInv'
  <2> DEFINE own == {i \in Find(p.sluid) : jobs[i].node \in {NULL, n}}
             t == [i \in Ids |-> IF i \in own THEN JobComplete(jobs[i], FALSE) ELSE jobs[i]]
             b == \E i \in own : jobs[i].state # "DONE"
  <2>1. Handle(t, b) /\ net' = net \cup UNION {Deallocate(i) : i \in own}
    BY Zenon, <1>3 DEF CompleteBatchScript
  <2>2. own \subseteq Ids /\ \A i \in own : jobs[i] # NULL /\ jobs[i] \in GoodRecord
    BY Zenon, <1>0 DEF Find, Table
  <2>3. \A k \in Nodes : slurmd'[k].steps \subseteq slurmd[k].steps
    <3>1. CASE again
      BY Zenon, <1>3, <3>1 DEF CompleteBatchScript
    <3>2. CASE ~again
      BY <1>0, <1>3, <3>2 DEF CompleteBatchScript, Slurmd
    <3> QED BY Zenon, <3>1, <3>2
  <2>4. \A i \in Ids : (i \in own /\ t[i] = JobComplete(jobs[i], FALSE)) \/ t[i] = jobs[i]
    BY Zenon
  <2> HIDE DEF own, t, b
  <2>5. \A i \in Ids : Running(t[i]) /\ t[i].quiet =>
            /\ Running(jobs[i]) /\ jobs[i].quiet /\ t[i].node = jobs[i].node
            /\ t[i].sluid = jobs[i].sluid
    BY Zenon, <2>2, <2>4, QuietKept
  <2>6. \A w \in net' : w \in net \/ w.type \notin {"LAUNCH", "REGISTRATION"}
    BY Zenon, <2>1, <2>2, DeallocateKills
  <2> QED BY Zenon, <2>1, <2>3, <2>5, <2>6, MissingHandler
<1> QED BY Zenon, <1>1, <1>2, <1>3

\* The steps of the controller as a whole: what is read from the file is not
\* quiet.
LEMMA GlobalActsMissing ==
  ASSUME TypeInv, MissingInv,
         Submit \/ Saver \/ Checkpoint \/ Shutdown \/ ShutdownEnds \/ Crash \/ Restart \/ Tick
  PROVE  MissingInv'
<1>0. /\ jobs \in Table /\ net \subseteq Message /\ slurmd \in [Nodes -> Slurmd] /\ SaveRec
      /\ (file # NULL => Woken(file.jobs)) /\ (save.at = "moved" => Woken(save.buffer.jobs))
  BY Zenon DEF TypeInv, CtldType, SaveType, MissingInv, QuietInv
<1>1. CASE Submit
  <2>1. PICK k \in 0 .. (MaxJobId - 2) :
          jobs' = [jobs EXCEPT ![Candidate(k)] = NewJob(sluids + 1)]
    BY Zenon, <1>1 DEF Submit
  <2>2. UNCHANGED <<file, slurmd, net>> /\ save'.at = save.at /\ save'.buffer = save.buffer
    BY Zenon, <1>0, <1>1 DEF Submit, ScheduleJobSave, SaveRec
  <2>3. \A i \in Ids : Running(jobs'[i]) => jobs'[i] = jobs[i]
    BY Zenon, <1>0, <2>1 DEF Table, NewJob, Running
  <2> QED BY Zenon, <1>0, <2>2, <2>3, MissingKept
<1>2. CASE SaveBegins \/ Checkpoint \/ Shutdown
  <2>1. UNCHANGED <<jobs, file, slurmd, net>>
        /\ (save'.at = "header" \/ (save'.at = save.at /\ save'.buffer = save.buffer))
    BY SMTT(30), <1>0, <1>2 DEF SaveBegins, Checkpoint, Shutdown, ScheduleJobSave, SaveRec
  <2> QED BY Zenon, <1>0, <2>1, MissingKept
<1>3. CASE SaveMovesOld
  <2>1. save'.buffer.jobs = Saved(jobs) /\ file' = NULL /\ UNCHANGED <<jobs, slurmd, net>>
    BY Zenon, <1>0, <1>3 DEF SaveMovesOld, SaveStep, SaveRec
  <2>2. Woken(Saved(jobs))
    BY Zenon, <1>0 DEF Woken, Saved, Table, GoodRecord, JobRecord
  <2> QED BY Zenon, <1>0, <2>1, <2>2, MissingKept
<1>4. CASE SaveMovesNew
  <2>1. save.at = "moved" /\ save'.at = "idle" /\ file' = save.buffer
        /\ UNCHANGED <<jobs, slurmd, net>>
    BY Zenon, <1>0, <1>4 DEF SaveMovesNew, SaveStep, SaveRec
  <2> QED BY Zenon, <1>0, <2>1, MissingKept
<1>5. CASE ShutdownEnds \/ Crash
  <2>1. PICK lost \in SUBSET Losable : net' = Remains(lost)
    BY Zenon, <1>5 DEF ShutdownEnds, Crash, Gone
  <2>2. /\ save' \in {save, NoSave} /\ UNCHANGED <<jobs, file, slurmd>>
    BY Zenon, <1>5 DEF ShutdownEnds, Crash, Gone
  <2>3. ASSUME NEW m \in net', m \notin net
        PROVE  /\ m.type = "LAUNCH"
               /\ \A i \in Ids : Running(jobs[i]) /\ jobs[i].quiet => m.sluid # jobs[i].sluid
    <3>1. PICK w \in net : w.type = "LAUNCH" /\ m = [w EXCEPT !.dead = TRUE]
      BY Zenon, <2>1, <2>3 DEF Remains
    <3>2. m.type = "LAUNCH" /\ m.sluid = w.sluid
      BY Zenon, <1>0, <3>1, RequestFields
    <3> QED BY Zenon, <3>1, <3>2 DEF MissingInv, QuietInv
  <2>4. save'.at = "moved" => Woken(save'.buffer.jobs)
    BY SMTT(30), <1>0, <2>2 DEF NoSave
  <2> QED BY Zenon, <1>0, <2>2, <2>3, <2>4, MissingKept
<1>6. CASE Restart
  <2>1. file # NULL /\ jobs' = file.jobs /\ save' = NoSave
        /\ net' = net \cup SyncNodesToCompJob(file.jobs) /\ UNCHANGED <<file, slurmd>>
    BY Zenon, <1>6 DEF Restart
  <2>2. \A i \in Ids : ~(Running(jobs'[i]) /\ jobs'[i].quiet)
    BY Zenon, <1>0, <2>1 DEF Woken, Running
  <2>3. \A m \in net' : m \in net \/ m.type \notin {"LAUNCH", "REGISTRATION"}
    BY <2>1 DEF SyncNodesToCompJob, Kill
  <2>4. save'.at # "moved"
    BY Zenon, <2>1 DEF NoSave
  <2> QED BY Zenon, <1>0, <2>1, <2>2, <2>3, <2>4, MissingKept
<1>7. CASE Tick
  <2>1. UNCHANGED <<jobs, file, slurmd, net, save>>
    BY Zenon, <1>7 DEF Tick, ctldVars
  <2> QED BY Zenon, <1>0, <2>1, MissingKept
<1> QED BY Zenon, <1>1, <1>2, <1>3, <1>4, <1>5, <1>6, <1>7 DEF Saver

\* Both together are inductive.
LEMMA MissingInductive == TypeInv /\ SluidInv /\ MissingInv /\ [Next]_vars => MissingInv'
<1> SUFFICES ASSUME TypeInv, SluidInv, MissingInv, [Next]_vars PROVE MissingInv'
  BY Zenon
<1>1. CASE UNCHANGED vars
  BY Zenon, <1>1, MissingKept DEF vars, ctldVars, MissingInv, QuietInv
<1> QED
  BY Zenon, <1>1, GlobalActsMissing, JobActsMissing, NodeActsMissing, CtldActsMissing,
     SlurmdActsMissing DEF Next

-----------------------------------------------------------------------------
(* The state stays well typed.                                             *)

\* The type invariant follows.
LEMMA TypeInvTypes == TypeInv => TypeOK
<1> SUFFICES ASSUME TypeInv PROVE TypeOK
  BY Zenon
<1>1. jobs \in JobTable
  BY Zenon DEF TypeInv, CtldType, Table, JobTable, GoodRecord
<1>2. \A i \in Ids : Running(jobs[i]) \/ Completing(jobs[i]) => jobs[i].node # NULL
  BY Zenon DEF TypeInv, CtldType, Table, GoodRecord, Running, Completing
<1>3. file = NULL \/ (file.seq \in 1 .. MaxJobId /\ file.jobs \in JobTable)
  BY Zenon DEF TypeInv, CtldType, Image, Table, JobTable, GoodRecord
<1>4. \A n \in Nodes : /\ slurmd[n].steps \subseteq Stepd
                       /\ slurmd[n].active \subseteq Ids
                       /\ slurmd[n].creds \subseteq Cred
  BY Zenon DEF TypeInv, Slurmd
<1> QED BY Zenon, <1>1, <1>2, <1>3, <1>4 DEF TypeInv, CtldType, SaveType, TypeOK

\* The changes a handler makes to a job record keep its type.
LEMMA RecordTypes ==
  ASSUME NEW r \in GoodRecord
  PROVE  /\ \A b \in BOOLEAN : [r EXCEPT !.quiet = b] \in GoodRecord
         /\ \A b \in BOOLEAN : [r EXCEPT !.held = b] \in GoodRecord
         /\ [r EXCEPT !.cg = FALSE] \in GoodRecord
         /\ \A n \in Nodes, t \in Nat :
              [r EXCEPT !.state = "RUNNING", !.node = n, !.start = t, !.quiet = FALSE]
                \in GoodRecord
         /\ \A s \in {"PENDING", "DONE"} : [r EXCEPT !.state = s] \in GoodRecord
         /\ \A s \in {"PENDING", "DONE"} :
              r.state = "RUNNING" => Ended(r, s) \in GoodRecord
<1>0. NULL \notin Nodes
  BY Zenon, RecoveryAssumption
<1> QED BY Zenon, <1>0 DEF GoodRecord, JobRecord, Ended

\* A new incarnation is a well-typed record.
LEMMA NewTypes ==
  ASSUME NEW s \in Nat \ {0}, NEW b \in BOOLEAN
  PROVE  /\ NewJob(s) \in GoodRecord
         /\ [NewJob(s) EXCEPT !.held = b] \in GoodRecord
BY Zenon DEF NewJob, GoodRecord, JobRecord

\* A handler that keeps the table typed keeps the controller's state typed.
LEMMA HandleTypes ==
  ASSUME CtldType, NEW t \in Table, NEW saves \in BOOLEAN, Handle(t, saves)
  PROVE  CtldType' /\ jobs' = t /\ UNCHANGED <<clock, crashed>>
<1>1. late' \subseteq Ids
  BY Zenon DEF Handle, CtldType
<1>2. SaveType'
  <2>1. CASE save' = save
    BY Zenon, <2>1 DEF CtldType, SaveType, SaveRec
  <2>2. CASE save' = ScheduleJobSave
    BY Zenon, <2>2 DEF CtldType, SaveType, SaveRec, ScheduleJobSave
  <2> QED BY Zenon, <2>1, <2>2 DEF Handle
<1> QED BY Zenon, <1>1, <1>2 DEF Handle, CtldType

\* Changing one record for another keeps the table.
LEMMA TableExcept ==
  ASSUME jobs \in Table, NEW i \in Ids, NEW r \in GoodRecord \cup {NULL}
  PROVE  [jobs EXCEPT ![i] = r] \in Table
BY Zenon DEF Table

\* A request of create_kill_job_msg() is a message.
LEMMA KillTyped ==
  ASSUME clock \in Nat, NEW type \in KillTypes, NEW i \in Ids, NEW r \in GoodRecord,
         NEW n \in Nodes
  PROVE  Kill(type, i, r, n) \in Message
BY Zenon DEF Kill, Message, GoodRecord, JobRecord

\* So is the request of deallocate_nodes().
LEMMA DeallocateTyped ==
  ASSUME clock \in Nat, jobs \in Table, NEW i \in Ids
  PROVE  Deallocate(i) \subseteq Message
<1> SUFFICES ASSUME Running(jobs[i])
             PROVE  Kill("TERMINATE", i, jobs[i], jobs[i].node) \in Message
  BY Zenon DEF Deallocate
<1>1. jobs[i] \in GoodRecord /\ jobs[i].node \in Nodes
  BY Zenon DEF Table, Running, GoodRecord, JobRecord
<1> QED BY Zenon, <1>1, KillTyped DEF KillTypes

\* Spending a bound leaves the settings of the case.
LEMMA SpendTypes ==
  ASSUME CaseType, NEW b \in Bounds, Spend(b)
  PROVE  CaseType'
BY Zenon DEF CaseType, Spend, Bounds

\* job_complete on a record
LEMMA CompleteTypes ==
  ASSUME NEW r \in GoodRecord \cup {NULL}, NEW b \in BOOLEAN
  PROVE  JobComplete(r, b) \in GoodRecord \cup {NULL}
<1>1. CASE Running(r)
  <2>1. r \in GoodRecord /\ r.state = "RUNNING"
    BY Zenon, <1>1 DEF Running
  <2>2. Ended(r, "PENDING") \in GoodRecord /\ Ended(r, "DONE") \in GoodRecord
    BY Zenon, <2>1, RecordTypes
  <2> QED BY Zenon, <1>1, <2>2 DEF JobComplete
<1> QED BY Zenon, <1>1 DEF JobComplete

\* What a failed launch does to a record.
LEMMA FailedTypes ==
  ASSUME CaseType, sluids \in Nat, NEW r \in GoodRecord, r # NULL
  PROVE  LaunchFailed(r) \in GoodRecord
<1>1. r.state \in {"PENDING", "RUNNING", "DONE"} /\ r.cg \in BOOLEAN
  BY Zenon DEF GoodRecord, JobRecord
<1>2. CASE ~case.requeue /\ Running(r)
  BY ZenonT(30), <1>2, RecordTypes DEF LaunchFailed, Running
<1>3. CASE ~case.requeue /\ ~Running(r)
  BY Zenon, <1>3, RecordTypes DEF LaunchFailed
<1>4. CASE case.requeue /\ r.state = "PENDING"
  BY Zenon, <1>4 DEF LaunchFailed, Running
<1>5. CASE case.requeue /\ Running(r)
  <2>1. Ended(r, "PENDING") \in GoodRecord
    BY ZenonT(30), <1>5, RecordTypes DEF Running
  <2>2. [Ended(r, "PENDING") EXCEPT !.held = TRUE] \in GoodRecord
    BY Zenon, <2>1, RecordTypes
  <2> QED BY Zenon, <1>5, <2>2 DEF LaunchFailed, Running
<1>6. CASE case.requeue /\ r.state = "DONE" /\ r.cg
  <2>1. [r EXCEPT !.state = "PENDING", !.held = TRUE] \in GoodRecord
    BY Zenon, <1>6 DEF GoodRecord, JobRecord
  <2> QED BY Zenon, <1>6, <2>1 DEF LaunchFailed, Running
<1>7. CASE case.requeue /\ r.state = "DONE" /\ ~r.cg
  <2>0. sluids + 1 \in Nat \ {0}
    OBVIOUS
  <2>1. [NewJob(sluids + 1) EXCEPT !.held = TRUE] \in GoodRecord
    BY Zenon, <2>0, NewTypes
  <2>2. [r EXCEPT !.held = TRUE].held = TRUE
    BY Zenon DEF GoodRecord, JobRecord
  <2> QED BY Zenon, <1>7, <2>1, <2>2 DEF LaunchFailed, Running, BatchRequeueFini
<1> QED BY Zenon, <1>1, <1>2, <1>3, <1>4, <1>5, <1>6, <1>7 DEF CaseType, Running

\* A step of slurmd with a typed result is typed.
LEMMA SlurmdStepTypes ==
  ASSUME TypeInv, NEW n \in Nodes, NEW d \in Slurmd, NEW S \in SUBSET Message,
         SlurmdStep(n, d, S)
  PROVE  TypeInv'
<1>1. CtldType' /\ CaseType'
  BY Zenon DEF TypeInv, SlurmdStep, ctldVars, CtldType, CaseType, SaveType, SaveRec, Image
<1> QED BY Zenon, <1>1 DEF TypeInv, SlurmdStep

\* Everything slurmd does with a request keeps the types.
LEMMA SlurmdActsTyped ==
  ASSUME TypeInv, NEW m \in net,
         \/ SlurmdReceives(m) \/ SlurmdKills(m) \/ LaunchUnanswered(m)
  PROVE  TypeInv'
<1>1. m \in Message /\ net \subseteq Message /\ m.node \in Nodes /\ slurmd[m.node] \in Slurmd
  BY Zenon, RequestFields DEF TypeInv
<1>2. CASE LaunchBatchJob(m) \/ LaunchUnanswered(m)
  <2>1. m.type = "LAUNCH" /\ m.id \in Ids /\ m.sluid \in Nat
    BY Zenon, <1>1, <1>2, RequestFields DEF LaunchBatchJob, LaunchUnanswered
  <2>2. Report("REQUEUE", m) \in Message /\ Report("REFUSED", m) \in Message
    BY Zenon, <1>1, <2>1, ReportTyped
  <2> DEFINE d == Reissued(slurmd[m.node], m.sluid, m.ctime)
  <2>3. d \in Slurmd /\ Launched(d, m) \in Slurmd
    BY Zenon, <1>1, <2>1, SlurmdTypes
  <2>4. \E e \in Slurmd : \E S \in SUBSET Message : SlurmdStep(m.node, e, S)
    <3>1. CASE LaunchUnanswered(m)
      BY Zenon, <1>1, <2>2, <2>3, <3>1 DEF LaunchUnanswered
    <3>2. CASE LaunchBatchJob(m)
      <4>1. \/ SlurmdStep(m.node, slurmd[m.node], (net \ {m}) \cup {Report("REQUEUE", m)})
            \/ SlurmdStep(m.node, d, IF m.dead THEN net \ {m}
                                     ELSE (net \ {m}) \cup {Report("REFUSED", m)})
            \/ SlurmdStep(m.node, Launched(d, m), net \ {m})
        BY <3>2, Zenon DEF LaunchBatchJob
      <4> HIDE DEF d
      <4> QED BY Zenon, <1>1, <2>2, <2>3, <4>1
    <3> QED BY Zenon, <1>2, <3>1, <3>2
  <2> QED BY Zenon, <1>1, <2>4, SlurmdStepTypes
<1>3. ASSUME m.type \in KillTypes, SlurmdReceives(m) \/ SlurmdKills(m) PROVE TypeInv'
  <2>1. /\ m.sluid \in Nat /\ m.time \in Nat /\ [m EXCEPT !.begun = TRUE] \in Message
        /\ Report("EPILOG", m) \in Message
    <3>1. m \in [type : KillTypes, id : Ids, node : Nodes, sluid : Nat, time : Nat,
                 start : Nat, begun : BOOLEAN]
      BY Zenon, <1>1, <1>3, RequestFields
    <3>2. [m EXCEPT !.begun = TRUE] \in [type : KillTypes, id : Ids, node : Nodes,
             sluid : Nat, time : Nat, start : Nat, begun : BOOLEAN]
      BY Zenon, <3>1
    <3> QED BY Zenon, <1>1, <1>3, <3>1, <3>2, ReportTyped DEF Message
  <2> DEFINE c == slurmd[m.node]
             v == Revoked(c, m)
             d == [v EXCEPT !.steps = {p \in @ : p.id = m.id => p.over}]
  <2>2. v \in Slurmd /\ Killed(c, m.id) \in Slurmd /\ Cleaned(c, m) \in Slurmd
    BY Zenon, <1>1, <2>1, SlurmdTypes
  <2>3. Killed(v, m.id) \in Slurmd
    BY Zenon, <2>2, SlurmdTypes
  <2>4. d \in Slurmd
    BY Zenon, <2>2, SlurmdTypes DEF Slurmd
  <2>5. Cleaned(d, m) \in Slurmd
    BY Zenon, <2>4, SlurmdTypes
  <2>6. \E e \in Slurmd : \E S \in SUBSET Message : SlurmdStep(m.node, e, S)
    <3>0. m.type # "LAUNCH"
      BY Zenon, <1>3 DEF KillTypes
    <3>1. \/ SlurmdStep(m.node, Cleaned(d, m), net \ {m})
          \/ SlurmdStep(m.node, d, (net \ {m}) \cup {[m EXCEPT !.begun = TRUE]})
          \/ SlurmdStep(m.node, c, net \ {m})
          \/ SlurmdStep(m.node, Killed(v, m.id), (net \ {m}) \cup {[m EXCEPT !.begun = TRUE]})
          \/ SlurmdStep(m.node, Killed(c, m.id), net)
          \/ SlurmdStep(m.node, Cleaned(c, m), (net \ {m}) \cup IF m.type = "ABORT" THEN {}
                                                                ELSE {Report("EPILOG", m)})
      BY <1>3, <3>0, Zenon DEF SlurmdReceives, SlurmdKills, LaunchBatchJob, AbortBegins,
         TerminateBegins, KillAgain, KillEnds
    <3> HIDE DEF c, v, d
    <3>2. c \in Slurmd
      BY Zenon, <1>1 DEF c
    <3> QED BY Zenon, <1>1, <2>1, <2>2, <2>3, <2>4, <2>5, <3>1, <3>2
  <2> QED BY Zenon, <1>1, <2>6, SlurmdStepTypes
<1>4. SlurmdReceives(m) \/ SlurmdKills(m) => LaunchBatchJob(m) \/ m.type \in KillTypes
  BY Zenon DEF SlurmdReceives, SlurmdKills, AbortBegins, TerminateBegins, KillAgain, KillEnds,
     KillTypes
<1> QED BY Zenon, <1>2, <1>3, <1>4

\* A handler that leaves slurmd alone and sends typed messages is typed.
LEMMA HandlerTypes ==
  ASSUME TypeInv, NEW t \in Table, NEW saves \in BOOLEAN, Handle(t, saves),
         slurmd' \in [Nodes -> Slurmd], net' \subseteq Message, sluids' \in Nat, CaseType'
  PROVE  TypeInv'
BY Zenon, HandleTypes DEF TypeInv

\* The steps of slurmctld about one job.
LEMMA JobActsTyped ==
  ASSUME TypeInv, NEW i \in Ids,
         \/ \E n \in Nodes : Start(i, n)
         \/ Release(i) \/ ReKillJob(i) \/ PurgeOldJob(i) \/ TimePasses(i)
  PROVE  TypeInv'
<1>0. jobs \in Table /\ clock \in Nat /\ net \subseteq Message
  BY Zenon DEF TypeInv, CtldType
<1>1. jobs[i] # NULL => jobs[i] \in GoodRecord
  BY Zenon, <1>0 DEF Table
<1>2. ASSUME NEW n \in Nodes, Start(i, n) PROVE TypeInv'
  <2> DEFINE r == [jobs[i] EXCEPT !.state = "RUNNING", !.node = n, !.start = clock,
                                  !.quiet = FALSE]
             m == [type |-> "LAUNCH", id |-> i, node |-> n, sluid |-> jobs[i].sluid,
                   ctime |-> clock, dead |-> FALSE]
  <2>1. jobs[i] \in GoodRecord
    BY Zenon, <1>1, <1>2 DEF Start
  <2>2. r \in GoodRecord
    BY Zenon, <1>0, <2>1, RecordTypes
  <2>3. m \in Message
    BY Zenon, <1>0, <2>1 DEF Message, GoodRecord, JobRecord
  <2>4. CaseType'
    BY ZenonT(30), <1>2, SpendTypes DEF Start, TypeInv, Bounds
  <2>5. Handle([jobs EXCEPT ![i] = r], TRUE) /\ net' = net \cup {m}
        /\ UNCHANGED <<slurmd, sluids>>
    BY Zenon, <1>2 DEF Start
  <2> HIDE DEF r, m
  <2>6. [jobs EXCEPT ![i] = r] \in Table
    BY Zenon, <1>0, <2>2, TableExcept
  <2> QED BY ZenonT(30), <1>0, <2>3, <2>4, <2>5, <2>6, HandlerTypes DEF TypeInv
<1>3. ASSUME NEW r \in GoodRecord \cup {NULL}, NEW b \in BOOLEAN,
             Handle([jobs EXCEPT ![i] = r], b), net' \subseteq Message,
             UNCHANGED <<slurmd, sluids, case>>
      PROVE  TypeInv'
  <2>1. [jobs EXCEPT ![i] = r] \in Table
    BY Zenon, <1>0, TableExcept
  <2>2. CaseType'
    BY Zenon, <1>3 DEF TypeInv, CaseType
  <2> QED BY Zenon, <1>3, <2>1, <2>2, HandlerTypes DEF TypeInv
<1>4. CASE Release(i)
  BY ZenonT(30), <1>0, <1>1, <1>3, <1>4, RecordTypes DEF Release
<1>5. CASE ReKillJob(i)
  <2>1. jobs[i] \in GoodRecord /\ jobs[i].node \in Nodes
    BY Zenon, <1>1, <1>5 DEF ReKillJob, Completing, GoodRecord, JobRecord
  <2>2. Kill("TERMINATE", i, jobs[i], jobs[i].node) \in Message
    BY Zenon, <1>0, <2>1, KillTyped DEF KillTypes
  <2> QED BY Zenon, <1>0, <1>3, <1>5, <2>1, <2>2, RecordTypes DEF ReKillJob
<1>6. CASE PurgeOldJob(i)
  BY Zenon, <1>0, <1>3, <1>6 DEF PurgeOldJob
<1>7. CASE TimePasses(i)
  BY Zenon, <1>0, <1>1, <1>3, <1>7, RecordTypes DEF TimePasses
<1> QED BY Zenon, <1>2, <1>4, <1>5, <1>6, <1>7

\* The messages slurmctld handles.
LEMMA CtldActsTyped ==
  ASSUME TypeInv, NEW m \in net, CtldReceives(m) \/ NoResponse(m) \/ LoseMessage(m)
  PROVE  TypeInv'
<1>0. /\ jobs \in Table /\ clock \in Nat /\ net \subseteq Message /\ m \in Message
      /\ slurmd \in [Nodes -> Slurmd] /\ sluids \in Nat /\ CaseType
  BY Zenon DEF TypeInv, CtldType
<1>1. \A i \in Ids : jobs[i] \in GoodRecord \cup {NULL}
  BY Zenon, <1>0 DEF Table
<1>2. \A S \in SUBSET Ids : UNION {Deallocate(i) : i \in S} \subseteq Message
  BY Zenon, <1>0, DeallocateTyped
<1>3. \A s : Find(s) \subseteq Ids
  BY Zenon DEF Find
<1>4. CASE EpilogComplete(m)
  <2> DEFINE hit  == {i \in Find(m.sluid) : jobs[i].cg /\ jobs[i].node = m.node}
             fini == {i \in hit : jobs[i].state = "PENDING"}
             t == [i \in Ids |-> CASE i \in fini -> BatchRequeueFini(jobs[i])
                                   [] i \in hit \ fini -> [jobs[i] EXCEPT !.cg = FALSE]
                                   [] OTHER -> jobs[i]]
  <2>1. hit \subseteq Ids /\ fini \subseteq Ids /\ \A i \in hit : jobs[i] \in GoodRecord
    BY Zenon, <1>1 DEF Find
  <2>2. sluids + 1 \in Nat \ {0}
    BY <1>0
  <2>3. ASSUME NEW i \in hit
        PROVE  BatchRequeueFini(jobs[i]) \in GoodRecord /\ [jobs[i] EXCEPT !.cg = FALSE] \in GoodRecord
    <3>1. jobs[i].held \in BOOLEAN
      BY Zenon, <2>1 DEF GoodRecord, JobRecord
    <3> QED BY Zenon, <2>1, <2>2, <3>1, NewTypes, RecordTypes DEF BatchRequeueFini
  <2>4. Handle(t, hit # {} /\ ctld = "up") /\ net' = net \ {m}
        /\ sluids' = sluids + NewSluids(fini) /\ UNCHANGED <<slurmd, case>>
    BY Zenon, <1>4 DEF EpilogComplete
  <2>5. NewSluids(fini) \in Nat
    BY Zenon, CountTyped
  <2>6. t \in Table
    <3> SUFFICES ASSUME NEW i \in Ids PROVE t[i] \in GoodRecord \cup {NULL}
      BY Zenon DEF Table
    <3> HIDE DEF hit
    <3> QED BY Zenon, <1>1, <2>3
  <2>7. (hit # {} /\ ctld = "up") \in BOOLEAN
    BY Zenon
  <2>8. CaseType'
    BY Zenon, <1>0, <2>4 DEF CaseType
  <2> HIDE DEF t, hit, fini
  <2>9. sluids' \in Nat /\ net' \subseteq Message
    BY <1>0, <2>4, <2>5
  <2> QED BY Zenon, <1>0, <2>4, <2>6, <2>7, <2>8, <2>9, HandlerTypes
<1>5. CASE JobRequeue(m)
  <2> DEFINE hit  == Find(m.sluid)
             fini == {i \in hit : case.requeue /\ jobs[i].state = "DONE" /\ ~jobs[i].cg}
             t == [i \in Ids |-> IF i \in hit THEN LaunchFailed(jobs[i]) ELSE jobs[i]]
  <2>1. hit \subseteq Ids /\ fini \subseteq Ids
        /\ \A i \in hit : jobs[i] \in GoodRecord /\ jobs[i] # NULL
    BY Zenon, <1>1 DEF Find
  <2>2. \A i \in hit : LaunchFailed(jobs[i]) \in GoodRecord
    BY Zenon, <1>0, <2>1, FailedTypes
  <2>3. t \in Table
    <3> SUFFICES ASSUME NEW i \in Ids PROVE t[i] \in GoodRecord \cup {NULL}
      BY Zenon DEF Table
    <3> HIDE DEF hit
    <3> QED BY Zenon, <1>1, <2>2
  <2>4. Handle(t, hit # {}) /\ net' = (net \ {m}) \cup UNION {Deallocate(i) : i \in hit}
        /\ sluids' = sluids + NewSluids(fini) /\ UNCHANGED <<slurmd, case>>
    BY Zenon, <1>5 DEF JobRequeue
  <2>5. NewSluids(fini) \in Nat
    BY Zenon, CountTyped
  <2>6. (hit # {}) \in BOOLEAN
    BY Zenon
  <2>7. CaseType'
    BY Zenon, <1>0, <2>4 DEF CaseType
  <2>8. net' \subseteq Message
    BY Zenon, <1>0, <1>2, <2>1, <2>4
  <2> HIDE DEF t, hit, fini
  <2>9. sluids' \in Nat
    BY <1>0, <2>4, <2>5
  <2> QED BY Zenon, <1>0, <2>3, <2>4, <2>6, <2>7, <2>8, <2>9, HandlerTypes
<1>6. ASSUME NEW b \in BOOLEAN, NEW left \in SUBSET Message, AgentEnds(m, b, left), CaseType'
      PROVE  TypeInv'
  <2> DEFINE hit == Find(m.sluid)
             t == [i \in Ids |-> IF i \in hit THEN JobComplete(jobs[i], b) ELSE jobs[i]]
  <2>1. t \in Table
    <3> SUFFICES ASSUME NEW i \in Ids PROVE t[i] \in GoodRecord \cup {NULL}
      BY Zenon DEF Table
    <3> HIDE DEF hit
    <3> QED BY Zenon, <1>1, CompleteTypes
  <2>2. Handle(t, FALSE) /\ net' = (net \ {m}) \cup left \cup UNION {Deallocate(i) : i \in hit}
        /\ UNCHANGED <<slurmd, sluids>>
    BY Zenon, <1>6 DEF AgentEnds
  <2>3. net' \subseteq Message
    BY Zenon, <1>0, <1>2, <1>3, <2>2
  <2> HIDE DEF t, hit
  <2> QED BY Zenon, <1>0, <1>6, <2>1, <2>2, <2>3, HandlerTypes
<1>7. CASE LaunchRefused(m)
  <2>1. CaseType' /\ AgentEnds(m, FALSE, {})
    BY Zenon, <1>0, <1>7 DEF LaunchRefused, CaseType
  <2> QED BY Zenon, <1>6, <2>1
<1>8. CASE NoResponse(m)
  <2>1. [m EXCEPT !.dead = TRUE] \in Message
    <3>1. m \in [type : {"LAUNCH"}, id : Ids, node : Nodes, sluid : Nat, ctime : Nat,
                 dead : BOOLEAN]
      BY Zenon, <1>0, <1>8, RequestFields DEF NoResponse
    <3>2. [m EXCEPT !.dead = TRUE] \in [type : {"LAUNCH"}, id : Ids, node : Nodes,
                                        sluid : Nat, ctime : Nat, dead : BOOLEAN]
      BY Zenon, <3>1
    <3> QED BY Zenon, <3>2 DEF Message
  <2>2. CaseType'
    BY Zenon, <1>0, <1>8, SpendTypes DEF NoResponse, Bounds
  <2>3. PICK left \in {{}, {[m EXCEPT !.dead = TRUE]}} : AgentEnds(m, TRUE, left)
    BY Zenon, <1>8 DEF NoResponse
  <2> QED BY Zenon, <1>6, <2>1, <2>2, <2>3
<1>9. CASE LoseMessage(m)
  <2>1. CaseType'
    BY Zenon, <1>0, <1>9, SpendTypes DEF LoseMessage, Bounds
  <2>2. CtldType'
    BY Zenon, <1>9 DEF LoseMessage, ctldVars, TypeInv, CtldType, SaveType, SaveRec, Image
  <2> QED BY Zenon, <1>0, <1>9, <2>1, <2>2 DEF LoseMessage, TypeInv
<1>10. CASE Registration(m)
  <2> DEFINE listed == {x[2] : x \in m.steps}
             gone   == Missing(m.node, listed)
             seen(r) == Running(r) /\ r.node = m.node /\ r.sluid \in listed
             t == [i \in Ids |-> CASE i \in gone -> JobComplete(jobs[i], case.requeue)
                                   [] seen(jobs[i]) -> [jobs[i] EXCEPT !.quiet = FALSE]
                                   [] OTHER -> jobs[i]]
  <2>1. t \in Table
    <3> SUFFICES ASSUME NEW i \in Ids PROVE t[i] \in GoodRecord \cup {NULL}
      BY Zenon DEF Table
    <3>1. JobComplete(jobs[i], case.requeue) \in GoodRecord \cup {NULL}
      BY Zenon, <1>0, <1>1, CompleteTypes DEF CaseType
    <3>2. seen(jobs[i]) => [jobs[i] EXCEPT !.quiet = FALSE] \in GoodRecord
      BY Zenon, <1>1, RecordTypes DEF Running
    <3>3. t[i] = JobComplete(jobs[i], case.requeue)
          \/ (seen(jobs[i]) /\ t[i] = [jobs[i] EXCEPT !.quiet = FALSE]) \/ t[i] = jobs[i]
      OBVIOUS
    <3> HIDE DEF t, seen
    <3> QED BY Zenon, <1>1, <3>1, <3>2, <3>3
  <2>2. m.steps \subseteq Ids \X Nat /\ m.node \in Nodes
    BY Zenon, <1>0, <1>10, RequestFields DEF Registration
  <2>3. ASSUME NEW x \in m.steps PROVE Answer(m.node, x[1], x[2]) \subseteq Message
    <3>1. x[1] \in Ids /\ x[2] \in Nat
      BY Zenon, <2>2
    <3>2. CASE Find(x[2]) = {}
      <4>1. [type |-> "ABORT", id |-> x[1], node |-> m.node, sluid |-> x[2], time |-> clock,
             start |-> 0, begun |-> FALSE] \in Message
        BY Zenon, <1>0, <2>2, <3>1 DEF Message, KillTypes
      <4> QED BY Zenon, <3>2, <4>1 DEF Answer
    <3>3. CASE Find(x[2]) # {}
      <4> DEFINE i == CHOOSE j \in Find(x[2]) : TRUE
      <4>1. i \in Find(x[2])
        BY Zenon, <3>3
      <4> HIDE DEF i
      <4>2. i \in Ids /\ jobs[i] \in GoodRecord
        BY Zenon, <1>1, <4>1 DEF Find
      <4>3. Kill("ABORT", i, jobs[i], m.node) \in Message
            /\ Kill("TERMINATE", i, jobs[i], m.node) \in Message
        BY Zenon, <1>0, <2>2, <4>2, KillTyped DEF KillTypes
      <4>4. jobs[i].state \in {"PENDING", "RUNNING", "DONE"} /\ jobs[i].cg \in BOOLEAN
        BY Zenon, <4>2 DEF GoodRecord, JobRecord
      <4>5. jobs[i] # NULL
        BY Zenon, <4>1 DEF Find
      <4>6. Answer(m.node, x[1], x[2]) \subseteq
              {Kill("ABORT", i, jobs[i], m.node), Kill("TERMINATE", i, jobs[i], m.node)}
        BY Zenon, <3>3, <4>4, <4>5 DEF Answer, i, Running
      <4> QED BY Zenon, <4>3, <4>6
    <3> QED BY Zenon, <3>2, <3>3
  <2>4. Handle(t, FALSE) /\ UNCHANGED <<slurmd, sluids, case>>
        /\ net' = (net \ {m}) \cup (UNION {Answer(m.node, x[1], x[2]) : x \in m.steps})
                              \cup UNION {Deallocate(i) : i \in gone}
    BY Zenon, <1>10 DEF Registration
  <2>5. gone \subseteq Ids
    BY Zenon DEF Missing
  <2>6. net' \subseteq Message
    <3> DEFINE A == UNION {Answer(m.node, x[1], x[2]) : x \in m.steps}
               B == UNION {Deallocate(i) : i \in gone}
    <3>1. A \subseteq Message
      BY Zenon, <2>3
    <3>2. B \subseteq Message
      BY Zenon, <1>2, <2>5
    <3>3. net' = (net \ {m}) \cup A \cup B
      BY Zenon, <2>4
    <3> HIDE DEF A, B
    <3> QED BY Zenon, <1>0, <3>1, <3>2, <3>3
  <2> HIDE DEF t, gone, listed
  <2>7. CaseType'
    BY Zenon, <1>0, <2>4 DEF CaseType
  <2> QED BY Zenon, <1>0, <2>1, <2>4, <2>6, <2>7, HandlerTypes
<1> QED BY Zenon, <1>4, <1>5, <1>7, <1>8, <1>9, <1>10 DEF CtldReceives

\* The steps about a node and its slurmstepds.
LEMMA NodeActsTyped ==
  ASSUME TypeInv, NEW n \in Nodes,
         \/ SlurmdRegisters(n)
         \/ \E p \in slurmd[n].steps :
              ScriptEnds(n, p) \/ \E again \in BOOLEAN : CompleteBatchScript(n, p, again)
  PROVE  TypeInv'
<1>0. /\ jobs \in Table /\ clock \in Nat /\ net \subseteq Message
      /\ slurmd \in [Nodes -> Slurmd] /\ sluids \in Nat /\ CaseType
      /\ slurmd[n] \in Slurmd
  BY Zenon DEF TypeInv, CtldType
<1>1. CASE SlurmdRegisters(n)
  <2>1. {<<p.id, p.sluid>> : p \in slurmd[n].steps} \subseteq Ids \X Nat
    BY <1>0 DEF Slurmd, Stepd
  <2>2. [type |-> "REGISTRATION", node |-> n,
         steps |-> {<<p.id, p.sluid>> : p \in slurmd[n].steps}] \in Message
    BY Zenon, <2>1 DEF Message
  <2>3. CtldType' /\ CaseType'
    BY Zenon, <1>1 DEF SlurmdRegisters, ctldVars, TypeInv, CtldType, CaseType, SaveType, SaveRec, Image
  <2> QED BY Zenon, <1>0, <1>1, <2>2, <2>3 DEF SlurmdRegisters, TypeInv
<1>2. ASSUME NEW p \in slurmd[n].steps, ScriptEnds(n, p) PROVE TypeInv'
  <2> DEFINE S == (slurmd[n].steps \ {p}) \cup {[p EXCEPT !.over = TRUE]}
  <2>1. [p EXCEPT !.over = TRUE] \in Stepd
    BY Zenon, <1>0 DEF Slurmd, Stepd
  <2>2. S \in SUBSET Stepd
    BY Zenon, <1>0, <2>1 DEF Slurmd
  <2>3. SlurmdStep(n, [slurmd[n] EXCEPT !.steps = S], net)
    BY Zenon, <1>2 DEF ScriptEnds
  <2> HIDE DEF S
  <2>4. [slurmd[n] EXCEPT !.steps = S] \in Slurmd
    BY Zenon, <1>0, <2>2, SlurmdTypes
  <2> QED BY Zenon, <1>0, <2>3, <2>4, SlurmdStepTypes
<1>3. ASSUME NEW p \in slurmd[n].steps, NEW again \in BOOLEAN, CompleteBatchScript(n, p, again)
      PROVE  TypeInv'
  <2> DEFINE own == {i \in Find(p.sluid) : jobs[i].node \in {NULL, n}}
             t == [i \in Ids |-> IF i \in own THEN JobComplete(jobs[i], FALSE) ELSE jobs[i]]
             b == \E i \in own : jobs[i].state # "DONE"
  <2>1. t \in Table
    <3> SUFFICES ASSUME NEW i \in Ids PROVE t[i] \in GoodRecord \cup {NULL}
      BY Zenon DEF Table
    <3> HIDE DEF own
    <3>1. jobs[i] \in GoodRecord \cup {NULL}
      BY Zenon, <1>0 DEF Table
    <3> QED BY Zenon, <3>1, CompleteTypes
  <2>2. own \subseteq Ids
    BY Zenon DEF Find
  <2>3. UNION {Deallocate(i) : i \in own} \subseteq Message
    BY Zenon, <1>0, <2>2, DeallocateTyped
  <2>4. Handle(t, b) /\ net' = net \cup UNION {Deallocate(i) : i \in own} /\ UNCHANGED sluids
    BY Zenon, <1>3 DEF CompleteBatchScript
  <2>5. CaseType'
    <3>1. CASE again
      BY Zenon, <1>0, <1>3, <3>1, SpendTypes DEF CompleteBatchScript, Bounds
    <3>2. CASE ~again
      BY Zenon, <1>0, <1>3, <3>2 DEF CompleteBatchScript, CaseType
    <3> QED BY Zenon, <3>1, <3>2
  <2>6. slurmd' \in [Nodes -> Slurmd]
    <3>1. CASE again
      BY Zenon, <1>0, <1>3, <3>1 DEF CompleteBatchScript
    <3>2. CASE ~again
      <4>1. slurmd' = [slurmd EXCEPT ![n] = [slurmd[n] EXCEPT !.steps = @ \ {p}]]
        BY Zenon, <1>3, <3>2 DEF CompleteBatchScript
      <4>2. [slurmd[n] EXCEPT !.steps = @ \ {p}] \in Slurmd
        BY Zenon, <1>0 DEF Slurmd
      <4> QED BY Zenon, <1>0, <4>1, <4>2
    <3> QED BY Zenon, <3>1, <3>2
  <2>7. b \in BOOLEAN
    BY Zenon
  <2> HIDE DEF own, t, b
  <2> QED BY Zenon, <1>0, <2>1, <2>3, <2>4, <2>5, <2>6, <2>7, HandlerTypes
<1> QED BY Zenon, <1>1, <1>2, <1>3

\* What is saved is a table.
LEMMA SavedTyped == jobs \in Table => Saved(jobs) \in Table
<1> SUFFICES ASSUME jobs \in Table, NEW i \in Ids
             PROVE  Saved(jobs)[i] \in GoodRecord \cup {NULL}
  BY Zenon DEF Saved, Table
<1>1. jobs[i] = NULL \/ [jobs[i] EXCEPT !.quiet = FALSE] \in GoodRecord
  BY Zenon, RecordTypes DEF Table
<1> QED BY Zenon, <1>1 DEF Saved

\* The steps of the controller as a whole: submission, saves, shutdown, crash
\* and restart, and time.
LEMMA GlobalActsTyped ==
  ASSUME TypeInv,
         Submit \/ Saver \/ Checkpoint \/ Shutdown \/ ShutdownEnds \/ Crash \/ Restart \/ Tick
  PROVE  TypeInv'
<1>0. /\ jobs \in Table /\ clock \in Nat /\ net \subseteq Message
      /\ slurmd \in [Nodes -> Slurmd] /\ sluids \in Nat /\ CaseType /\ CtldType /\ SaveType
  BY Zenon DEF TypeInv, CtldType
<1>s. save' = ScheduleJobSave => SaveType'
  BY Zenon, <1>0 DEF SaveType, SaveRec, ScheduleJobSave
<1>1. CASE Submit
  <2>1. PICK k \in 0 .. (MaxJobId - 2) :
          jobs' = [jobs EXCEPT ![Candidate(k)] = NewJob(sluids + 1)] /\ seq' = Candidate(k) + 1
    BY Zenon, <1>1 DEF Submit
  <2>2. Candidate(k) \in Ids
    BY Zenon, CandidateTyped DEF TypeInv, CtldType
  <2>3. seq' \in 1 .. MaxJobId
    BY <2>1, <2>2, RecoveryAssumption DEF Ids
  <2>4. sluids + 1 \in Nat \ {0}
    BY <1>0
  <2>5. jobs' \in Table
    BY Zenon, <1>0, <2>1, <2>2, <2>4, NewTypes, TableExcept
  <2>6. CaseType'
    BY Zenon, <1>0, <1>1, SpendTypes DEF Submit, Bounds
  <2>7. SaveType' /\ sluids' \in Nat /\ UNCHANGED <<ctld, file, late, slurmd, net, clock, crashed>>
    BY Zenon, <1>0, <1>1, <1>s, <2>4 DEF Submit
  <2>8. (file # NULL => Image(file))'
    BY Zenon, <1>0, <2>7 DEF CtldType, Image
  <2> QED BY Zenon, <1>0, <2>3, <2>5, <2>6, <2>7, <2>8 DEF TypeInv, CtldType
<1>2. CASE SaveBegins
  <2>1. SaveType' /\ UNCHANGED <<ctld, jobs, seq, late, file, slurmd, net, clock, crashed, sluids, case>>
    BY Zenon, <1>0, <1>2 DEF SaveBegins, SaveType, SaveRec, CtldType
  <2> QED BY Zenon, <2>1 DEF TypeInv, CtldType, CaseType, Image
<1>3. CASE SaveMovesOld
  <2>0. Saved(jobs) \in Table
    BY Zenon, <1>0, SavedTyped
  <2>1. SaveType' /\ file' = NULL
        /\ UNCHANGED <<ctld, jobs, seq, late, slurmd, net, clock, crashed, sluids, case>>
    BY Zenon, <1>0, <1>3, <2>0 DEF SaveMovesOld, SaveStep, SaveType, SaveRec, CtldType
  <2> QED BY Zenon, <2>1 DEF TypeInv, CtldType, CaseType, Image
<1>4. CASE SaveMovesNew
  <2>1. SaveType' /\ file' = save.buffer /\ Image(save.buffer)
        /\ UNCHANGED <<ctld, jobs, seq, late, slurmd, net, clock, crashed, sluids, case>>
    BY Zenon, <1>0, <1>4 DEF SaveMovesNew, SaveStep, SaveType, SaveRec, CtldType, Image
  <2> QED BY Zenon, <2>1 DEF TypeInv, CtldType, CaseType, Image
<1>5. CASE Checkpoint
  <2>1. SaveType' /\ UNCHANGED <<ctld, jobs, seq, file, late, slurmd, net, clock, crashed, sluids, case>>
    BY Zenon, <1>5, <1>s DEF Checkpoint
  <2> QED BY Zenon, <2>1 DEF TypeInv, CtldType, CaseType, Image
<1>6. CASE Shutdown
  <2>1. SaveType' /\ CaseType' /\ ctld' = "stopping" /\ late' = {}
        /\ UNCHANGED <<jobs, seq, file, slurmd, net, clock, crashed, sluids>>
    BY Zenon, <1>0, <1>6, <1>s, SpendTypes DEF Shutdown, Bounds
  <2> QED BY Zenon, <2>1 DEF TypeInv, CtldType, Image
<1>7. ASSUME NEW state \in {"stopped", "dead"}, Gone(state), SaveType', CaseType' PROVE TypeInv'
  <2>1. PICK lost \in SUBSET Losable : net' = Remains(lost)
    BY Zenon, <1>7 DEF Gone
  <2>2. Remains(lost) \subseteq Message
    <3> SUFFICES ASSUME NEW m \in net
                 PROVE  (IF m.type = "LAUNCH" THEN [m EXCEPT !.dead = TRUE] ELSE m) \in Message
      BY Zenon DEF Remains
    <3>1. CASE m.type = "LAUNCH"
      <4>1. m \in [type : {"LAUNCH"}, id : Ids, node : Nodes, sluid : Nat, ctime : Nat,
                   dead : BOOLEAN]
        BY Zenon, <1>0, <3>1, RequestFields
      <4>2. [m EXCEPT !.dead = TRUE] \in [type : {"LAUNCH"}, id : Ids, node : Nodes,
                                          sluid : Nat, ctime : Nat, dead : BOOLEAN]
        BY Zenon, <4>1
      <4> QED BY Zenon, <3>1, <4>2 DEF Message
    <3> QED BY Zenon, <1>0, <3>1
  <2>3. ctld' = state /\ crashed' \in BOOLEAN
        /\ UNCHANGED <<jobs, seq, file, late, slurmd, clock, sluids>>
    BY Zenon, <1>7 DEF Gone
  <2> QED BY Zenon, <1>7, <2>1, <2>2, <2>3 DEF TypeInv, CtldType, Image
<1>8. CASE ShutdownEnds
  <2>1. SaveType' /\ CaseType'
    BY Zenon, <1>0, <1>8 DEF ShutdownEnds, SaveType, SaveRec, CaseType
  <2> QED BY Zenon, <1>7, <1>8, <2>1 DEF ShutdownEnds
<1>9. CASE Crash
  <2>1. SaveType' /\ CaseType'
    BY Zenon, <1>0, <1>9, SpendTypes DEF Crash, SaveType, SaveRec, NoSave, Bounds
  <2> QED BY Zenon, <1>7, <1>9, <2>1 DEF Crash
<1>10. CASE Restart
  <2>1. file.jobs \in Table /\ file.seq \in 1 .. MaxJobId
    BY Zenon, <1>0, <1>10 DEF Restart, CtldType, Image
  <2>2. ASSUME NEW i \in Ids, Completing(file.jobs[i])
        PROVE  Kill("TERMINATE", i, file.jobs[i], file.jobs[i].node) \in Message
    <3>1. file.jobs[i] \in GoodRecord /\ file.jobs[i].node \in Nodes
      BY Zenon, <2>1, <2>2 DEF Table, Completing, GoodRecord, JobRecord
    <3> QED BY Zenon, <1>0, <3>1, KillTyped DEF KillTypes
  <2>3. SyncNodesToCompJob(file.jobs) \subseteq Message
    BY Zenon, <2>2 DEF SyncNodesToCompJob
  <2>4. SaveType' /\ net' = net \cup SyncNodesToCompJob(file.jobs)
        /\ ctld' = "up" /\ late' = {} /\ jobs' = file.jobs /\ seq' = file.seq
        /\ UNCHANGED <<file, slurmd, clock, crashed, sluids, case>>
    BY Zenon, <1>10 DEF Restart, SaveType, SaveRec, NoSave
  <2> QED BY Zenon, <2>1, <2>3, <2>4 DEF TypeInv, CtldType, CaseType, Image
<1>11. CASE Tick
  <2>1. CaseType' /\ clock' \in Nat
    BY SMTT(30), <1>0, <1>11, SpendTypes DEF Tick, Bounds
  <2>2. CtldType'
    BY Zenon, <1>0, <1>11 DEF Tick, ctldVars, CtldType, SaveType, SaveRec, Image
  <2> QED BY Zenon, <1>11, <2>1, <2>2 DEF Tick, TypeInv
<1> QED BY Zenon, <1>1, <1>2, <1>3, <1>4, <1>5, <1>6, <1>8, <1>9, <1>10, <1>11 DEF Saver

\* The type invariant is inductive.
LEMMA TypeInductive == TypeInv /\ [Next]_vars => TypeInv'
<1> SUFFICES ASSUME TypeInv, [Next]_vars PROVE TypeInv'
  BY Zenon
<1>1. CASE UNCHANGED vars
  BY Zenon, <1>1 DEF vars, ctldVars, TypeInv, CtldType, CaseType, SaveType, SaveRec, Image
<1> QED
  BY Zenon, <1>1, GlobalActsTyped, JobActsTyped, NodeActsTyped, CtldActsTyped, SlurmdActsTyped DEF Next

\* It holds initially.
LEMMA InitTyped == Init => TypeInv
<1> SUFFICES ASSUME Init PROVE TypeInv
  BY Zenon
<1>1. CaseType
  BY Zenon, RecoveryAssumption DEF Init, CaseType
<1>2. jobs \in Table /\ 1 \in 1 .. MaxJobId
  BY SMTT(30), RecoveryAssumption DEF Init, Table
<1>3. slurmd \in [Nodes -> Slurmd]
  BY Zenon DEF Init, Slurmd
<1> QED BY Zenon, <1>1, <1>2, <1>3 DEF Init, TypeInv, CtldType, SaveType, SaveRec, NoSave, Image

\* job_list and the images of it, the messages, and what slurmd keeps have
\* their types, through every fault; a job that runs or completes has a node,
\* also after it was read from job_state.
THEOREM RecoveryTyped == Spec => []TypeOK
BY InitTyped, TypeInductive, TypeInvTypes, PTL DEF Spec

\* validate_jobs_on_node() never takes for missing a job that its node runs:
\* BatchStartTimeout is enough, whatever is lost or late, because the launch
\* request is no longer under way when it has passed, and a registration that
\* was is not either.
THEOREM MissingJobsAreGone == Spec => []MissingIsGone
<1>1. Init => MissingInv
  BY DEF Init, MissingInv, QuietInv, MissingIsGone, Woken, NoSave, Running
<1>2. MissingInv => MissingIsGone
  BY Zenon DEF MissingInv
<1> QED
  BY <1>1, <1>2, InitTyped, InitSluid, TypeInductive, SluidInductive, MissingInductive, PTL DEF Spec

-----------------------------------------------------------------------------
(* The orderly shutdown.                                                   *)

\* what is written holds every job as it is in memory, or agents have changed
\* the job since the shutdown was asked for
Current(image) ==
  /\ image.seq = seq
  /\ \A i \in Ids \ late : image.jobs[i] = Saved(jobs)[i]

\* While slurmctld stops, a save is asked for, or the thread has what it needs
\* for the last one, or the file is current.
StopInv ==
  ctld = "stopping" =>
    \/ save.jobs
    \/ save.at = "header" /\ save.buffer.seq = seq
    \/ save.at = "moved" /\ Current(save.buffer)
    \/ save.at = "idle" /\ Current(file)

SInv == SaveRec /\ StopInv

\* a step that changes jobs, and nothing of the thread but that it may ask for
\* a save; in a shutdown it is known which jobs it changes
Noted ==
  /\ save' \in {save, ScheduleJobSave}
  /\ late' = IF ctld = "stopping" THEN late \cup {i \in Ids : jobs'[i] # jobs[i]} ELSE late
  /\ UNCHANGED <<ctld, seq, file>>

\* What Saved() gives for a job depends on that job's record alone.
LEMMA SavedPointwise ==
  ASSUME NEW i \in Ids, jobs'[i] = jobs[i]
  PROVE  Saved(jobs)'[i] = Saved(jobs)[i]
BY Zenon DEF Saved

\* schedule_job_save() leaves save_jobs set.
LEMMA ScheduleSets ==
  ASSUME SaveRec, save' = ScheduleJobSave
  PROVE  SaveRec' /\ save'.jobs = TRUE
BY Zenon DEF SaveRec, ScheduleJobSave

\* Every handler keeps the invariant.
LEMMA NotedKeeps == SInv /\ Noted => SInv'
<1> SUFFICES ASSUME SInv, Noted PROVE SInv'
  BY Zenon
<1>1. CASE save' = ScheduleJobSave
  BY Zenon, <1>1, ScheduleSets DEF SInv, StopInv
<1>2. CASE save' = save
  <2>1. SaveRec'
    BY Zenon, <1>2 DEF SInv, SaveRec
  <2>2. ASSUME ctld = "stopping", NEW image, image' = image, Current(image)
        PROVE  image.seq = seq' /\ \A i \in Ids \ late' : image.jobs[i] = Saved(jobs)'[i]
    <3>1. image.seq = seq'
      BY Zenon, <2>2 DEF Noted, Current
    <3>2. ASSUME NEW i \in Ids \ late' PROVE image.jobs[i] = Saved(jobs)'[i]
      <4>1. i \in Ids /\ i \notin late /\ jobs'[i] = jobs[i]
        BY Zenon, <2>2, <3>2 DEF Noted
      <4>2. Saved(jobs)'[i] = Saved(jobs)[i]
        BY Zenon, <4>1, SavedPointwise
      <4> QED BY Zenon, <2>2, <4>1, <4>2 DEF Current
    <3> QED BY Zenon, <3>1, <3>2
  <2> QED
    BY <1>2, <2>1, <2>2 DEF SInv, StopInv, Noted, Current
<1> QED BY Zenon, <1>1, <1>2 DEF Noted

\* A step that leaves slurmctld alone keeps the invariant.
LEMMA OthersKeep == SInv /\ UNCHANGED ctldVars => SInv'
BY Zenon DEF SInv, StopInv, SaveRec, Current, Saved, ctldVars

\* The state save thread packs and writes the current state, or was asked to
\* save again meanwhile.
LEMMA SaverKeeps == SInv /\ Saver => SInv'
<1> SUFFICES ASSUME SInv, Saver PROVE SInv'
  BY Zenon
<1>1. CASE SaveBegins
  BY Zenon, <1>1 DEF SaveBegins, SInv, StopInv, SaveRec
<1>2. CASE SaveMovesOld
  BY Zenon, <1>2 DEF SaveMovesOld, SaveStep, SInv, StopInv, SaveRec, Current, Saved
<1>3. CASE SaveMovesNew
  BY Zenon, <1>3 DEF SaveMovesNew, SaveStep, SInv, StopInv, SaveRec, Current, Saved
<1> QED BY Zenon, <1>1, <1>2, <1>3 DEF Saver

\* The invariant is inductive.
LEMMA StopInvInductive == SInv /\ [Next]_vars => SInv'
<1> SUFFICES ASSUME SInv, [Next]_vars PROVE SInv'
  BY Zenon
<1>1. CASE Submit
  BY Zenon, <1>1, ScheduleSets DEF Submit, SInv, StopInv
<1>2. CASE Saver
  BY Zenon, <1>2, SaverKeeps
<1>3. CASE Checkpoint
  BY Zenon, <1>3, ScheduleSets DEF Checkpoint, SInv, StopInv
<1>4. CASE Shutdown
  BY Zenon, <1>4, ScheduleSets DEF Shutdown, SInv, StopInv
<1>5. CASE ShutdownEnds
  BY Zenon, <1>5 DEF ShutdownEnds, Gone, SInv, StopInv, SaveRec
<1>6. CASE Crash
  BY Zenon, <1>6 DEF Crash, Gone, NoSave, SInv, StopInv, SaveRec
<1>7. CASE Restart
  BY Zenon, <1>7 DEF Restart, NoSave, SInv, StopInv, SaveRec
<1>8. CASE Tick
  BY Zenon, <1>8, OthersKeep DEF Tick
<1>9. CASE \E i \in Ids : \/ \E n \in Nodes : Start(i, n)
                          \/ Release(i) \/ ReKillJob(i) \/ PurgeOldJob(i) \/ TimePasses(i)
  <2> PICK i \in Ids : \/ \E n \in Nodes : Start(i, n)
                       \/ Release(i) \/ ReKillJob(i) \/ PurgeOldJob(i) \/ TimePasses(i)
    BY Zenon, <1>9
  <2>1. CASE \E n \in Nodes : Start(i, n)
    BY Zenon, <2>1, NotedKeeps DEF Start, Handle, Noted
  <2>2. CASE Release(i)
    BY Zenon, <2>2, NotedKeeps DEF Release, Handle, Noted
  <2>3. CASE ReKillJob(i)
    BY Zenon, <2>3, NotedKeeps DEF ReKillJob, Handle, Noted
  <2>4. CASE PurgeOldJob(i)
    BY Zenon, <2>4, NotedKeeps DEF PurgeOldJob, Handle, Noted
  <2>5. CASE TimePasses(i)
    BY Zenon, <2>5, NotedKeeps DEF TimePasses, Handle, Noted
  <2> QED BY Zenon, <2>1, <2>2, <2>3, <2>4, <2>5
<1>10. CASE \E n \in Nodes : \/ SlurmdRegisters(n)
                             \/ \E p \in slurmd[n].steps :
                                  \/ ScriptEnds(n, p)
                                  \/ \E again \in BOOLEAN : CompleteBatchScript(n, p, again)
  <2> PICK n \in Nodes : \/ SlurmdRegisters(n)
                         \/ \E p \in slurmd[n].steps :
                              \/ ScriptEnds(n, p)
                              \/ \E again \in BOOLEAN : CompleteBatchScript(n, p, again)
    BY Zenon, <1>10
  <2>1. CASE SlurmdRegisters(n)
    BY Zenon, <2>1, OthersKeep DEF SlurmdRegisters
  <2>2. CASE \E p \in slurmd[n].steps : ScriptEnds(n, p)
    BY Zenon, <2>2, OthersKeep DEF ScriptEnds, SlurmdStep
  <2>3. ASSUME NEW p \in slurmd[n].steps, NEW again \in BOOLEAN,
               CompleteBatchScript(n, p, again)
        PROVE  SInv'
    BY Zenon, <2>3, NotedKeeps DEF CompleteBatchScript, Handle, Noted
  <2> QED BY Zenon, <2>1, <2>2, <2>3
<1>11. ASSUME NEW m \in net, \/ CtldReceives(m) \/ SlurmdReceives(m) \/ SlurmdKills(m)
                             \/ LaunchUnanswered(m) \/ NoResponse(m) \/ LoseMessage(m)
       PROVE  SInv'
  <2>1. CASE EpilogComplete(m)
    BY Zenon, <2>1, NotedKeeps DEF EpilogComplete, Handle, Noted
  <2>2. CASE JobRequeue(m)
    BY Zenon, <2>2, NotedKeeps DEF JobRequeue, Handle, Noted
  <2>3. CASE LaunchRefused(m)
    BY Zenon, <2>3, NotedKeeps DEF LaunchRefused, AgentEnds, Handle, Noted
  <2>4. CASE Registration(m)
    BY Zenon, <2>4, NotedKeeps DEF Registration, Handle, Noted
  <2>5. CASE NoResponse(m)
    BY Zenon, <2>5, NotedKeeps DEF NoResponse, AgentEnds, Handle, Noted
  <2>6. CASE SlurmdReceives(m)
    BY Zenon, <2>6, OthersKeep
    DEF SlurmdReceives, LaunchBatchJob, AbortBegins, TerminateBegins, SlurmdStep
  <2>7. CASE SlurmdKills(m)
    BY Zenon, <2>7, OthersKeep DEF SlurmdKills, KillAgain, KillEnds, SlurmdStep
  <2>8. CASE LaunchUnanswered(m)
    BY Zenon, <2>8, OthersKeep DEF LaunchUnanswered, SlurmdStep
  <2>9. CASE LoseMessage(m)
    BY Zenon, <2>9, OthersKeep DEF LoseMessage
  <2> QED
    BY Zenon, <1>11, <2>1, <2>2, <2>3, <2>4, <2>5, <2>6, <2>7, <2>8, <2>9 DEF CtldReceives
<1>12. CASE UNCHANGED vars
  BY Zenon, <1>12, OthersKeep DEF vars
<1> QED
  BY Zenon, <1>1, <1>2, <1>3, <1>4, <1>5, <1>6, <1>7, <1>8, <1>9, <1>10, <1>11, <1>12 DEF Next

\* shutdown_state_save() lets the thread end only when there is nothing left to
\* save, and then what it wrote last is current: an orderly shutdown loses no
\* change of a job but those that agents make while it goes on.
THEOREM CleanStop == Spec => CleanStopSaves
<1>1. Init => SInv
  BY Zenon DEF Init, SInv, SaveRec, StopInv, NoSave
<1>2. SInv /\ [Next]_vars =>
        [ctld = "stopping" /\ ctld' = "stopped" =>
           /\ file.seq = seq
           /\ \A i \in Ids \ late : file.jobs[i] = Saved(jobs)[i]]_vars
  <2> SUFFICES ASSUME SInv, [Next]_vars, ctld = "stopping", ctld' = "stopped"
               PROVE  /\ file.seq = seq
                      /\ \A i \in Ids \ late : file.jobs[i] = Saved(jobs)[i]
    BY ZenonT(30)
  <2>1. ShutdownEnds
    BY DEF Next, vars, ctldVars, Submit, Saver, SaveBegins, SaveMovesOld, SaveMovesNew,
       SaveStep, Checkpoint, Shutdown, Crash, Gone, Restart, Tick, Start, Release,
       ReKillJob, PurgeOldJob, TimePasses, SlurmdRegisters, ScriptEnds,
       CompleteBatchScript, CtldReceives, EpilogComplete, JobRequeue, LaunchRefused,
       Registration, NoResponse, AgentEnds, Handle, SlurmdReceives, LaunchBatchJob,
       AbortBegins, TerminateBegins, SlurmdKills, KillAgain, KillEnds, LaunchUnanswered,
       LoseMessage, SlurmdStep
  <2> QED BY Zenon, <2>1 DEF ShutdownEnds, SInv, StopInv, Current
<1> QED BY <1>1, <1>2, StopInvInductive, PTL DEF Spec, CleanStopSaves

-----------------------------------------------------------------------------
(* The invariant.                                                          *)

\* a job that can be started; a job that has its node
Fresh(r) == r # NULL /\ r.state = "PENDING" /\ ~r.cg
Holds(r, s, n) == r # NULL /\ r.sluid = s /\ r.node = n /\ (r.state = "RUNNING" \/ r.cg)

Launches(N) == {m \in N : m.type = "LAUNCH"}

\* slurmd has a revocation for the launch request
Barred(D, m) == \E c \in D[m.node].creds : c.sluid = m.sluid /\ c.revoked # 0

\* Every slurmstepd, and every launch request that slurmd would not refuse, is
\* of a job that the table t has on that node.
Carried(t, N, D) ==
  /\ \A n \in Nodes : \A p \in D[n].steps : Holds(t[p.id], p.sluid, n)
  /\ \A m \in Launches(N) : Barred(D, m) \/ Holds(t[m.id], m.sluid, m.node)

\* There is a trace of the incarnation s; then it is not waiting to be started.
Seen(s) ==
  \/ \E m \in net : m.type # "REGISTRATION" /\ m.sluid = s
  \/ \E m \in net : m.type = "REGISTRATION" /\ \E x \in m.steps : x[2] = s
  \/ \E n \in Nodes : \E p \in slurmd[n].steps : p.sluid = s
  \/ \E n \in Nodes : \E c \in slurmd[n].creds : c.sluid = s
Spent(s) == s <= sluids /\ \A i \in Ids : Fresh(jobs[i]) => jobs[i].sluid # s
SpentInv == \A s \in Nat : Seen(s) => Spent(s)

\* An incarnation is launched once.
LaunchOnce ==
  /\ \A m, w \in Launches(net) : m.sluid = w.sluid => m = w
  /\ \A m \in Launches(net), n \in Nodes : \A p \in slurmd[n].steps : m.sluid # p.sluid
  /\ \A k, n \in Nodes : \A p \in slurmd[k].steps, q \in slurmd[n].steps :
       p.sluid = q.sluid => k = n /\ p = q

\* A kill, and a revocation, is not older than the launch request.
Times ==
  /\ clock > 0
  /\ \A m \in Launches(net) : m.ctime <= clock
  /\ \A k \in net : k.type \in KillTypes =>
       k.time > 0 /\ \A m \in Launches(net) : m.sluid = k.sluid => m.ctime <= k.time
  /\ \A n \in Nodes : \A c \in slurmd[n].creds : \A m \in Launches(net) :
       m.sluid = c.sluid /\ c.revoked # 0 => m.ctime <= c.revoked

\* Once slurmd has begun to terminate a job, it would refuse a late launch; once
\* the epilog is reported there is no slurmstepd either.
Refuses(N, D, w) ==
  \A m \in Launches(N) : m.sluid = w.sluid /\ m.node = w.node => Barred(D, m)
NoStep(D, w) == \A p \in D[w.node].steps : p.sluid # w.sluid
Endings ==
  \A w \in net : /\ w.type = "TERMINATE" /\ w.begun => Refuses(net, slurmd, w)
                 /\ w.type = "EPILOG" => Refuses(net, slurmd, w) /\ NoStep(slurmd, w)

\* An image that a shutdown leaves: what it says is older than what is in
\* memory, but nothing has been launched since.
Snapshot(t, J, N, D) ==
  /\ Carried(t, N, D)
  /\ \A i \in Ids : Fresh(t[i]) => Fresh(J[i]) /\ t[i].sluid = J[i].sluid
Stops ==
  /\ ctld = "stopping" =>
       \/ save.jobs \/ save.at = "header"
       \/ save.at = "moved" /\ Snapshot(save.buffer.jobs, jobs, net, slurmd)
       \/ save.at = "idle" /\ Snapshot(file.jobs, jobs, net, slurmd)
  /\ ctld = "stopped" => save.at = "idle" /\ Snapshot(file.jobs, jobs, net, slurmd)
  /\ ctld # "dead"

RunInv == LaunchOnce /\ Carried(jobs, net, slurmd) /\ SpentInv /\ Times /\ Endings
OnceInv == ~crashed => RunInv /\ Stops

\* The invariant gives the property.
LEMMA OnceMeans == OnceInv => NeverTwice
<1> SUFFICES ASSUME OnceInv, ~crashed, NEW k \in Nodes, NEW n \in Nodes,
                    NEW p \in slurmd[k].steps, NEW q \in slurmd[n].steps, p.id = q.id
             PROVE  k = n /\ p = q
  BY Zenon DEF NeverTwice
<1>1. Holds(jobs[p.id], p.sluid, k) /\ Holds(jobs[q.id], q.sluid, n)
  BY Zenon DEF OnceInv, RunInv, Carried
<1>2. p.sluid = q.sluid
  BY Zenon, <1>1 DEF Holds
<1> QED BY Zenon, <1>2 DEF OnceInv, RunInv, LaunchOnce

\* What of N and D can launch a job again is in net and slurmd already.
NoMore(N, D) ==
  /\ \A m \in Launches(N) : \E w \in Launches(net) :
       m.sluid = w.sluid /\ m.id = w.id /\ m.node = w.node /\ m.ctime = w.ctime
  /\ \A n \in Nodes : \A p \in D[n].steps :
       \E q \in slurmd[n].steps : p.id = q.id /\ p.sluid = q.sluid
  /\ \A n \in Nodes : \A c \in slurmd[n].creds : c.revoked # 0 =>
       \E e \in D[n].creds : e.sluid = c.sluid /\ e.revoked # 0

\* Then what a table has on its nodes it still has, and refusals stay.
LEMMA CarriedStays ==
  ASSUME NEW N \in SUBSET Message, NEW D, NoMore(N, D), NEW t, Carried(t, net, slurmd),
         net \subseteq Message
  PROVE  Carried(t, N, D)
<1>1. ASSUME NEW n \in Nodes, NEW p \in D[n].steps PROVE Holds(t[p.id], p.sluid, n)
  <2>1. PICK q \in slurmd[n].steps : p.id = q.id /\ p.sluid = q.sluid
    BY Zenon DEF NoMore
  <2> QED BY Zenon, <2>1 DEF Carried
<1>2. ASSUME NEW m \in Launches(N) PROVE Barred(D, m) \/ Holds(t[m.id], m.sluid, m.node)
  <2>1. PICK w \in Launches(net) : m.sluid = w.sluid /\ m.id = w.id /\ m.node = w.node
    BY Zenon DEF NoMore
  <2>2. w.node \in Nodes
    BY Zenon, RequestFields DEF Launches
  <2>3. Barred(slurmd, w) => Barred(D, m)
    BY <2>1, <2>2 DEF Barred, NoMore
  <2>4. Barred(slurmd, w) \/ Holds(t[w.id], w.sluid, w.node)
    BY Zenon DEF Carried
  <2> QED BY Zenon, <2>1, <2>3, <2>4
<1> QED BY Zenon, <1>1, <1>2 DEF Carried

\* So do the refusals of requests that are ending a job.
LEMMA EndingStays ==
  ASSUME NEW N \in SUBSET Message, NEW D, NoMore(N, D), NEW w \in net, net \subseteq Message
  PROVE  /\ Refuses(net, slurmd, w) => Refuses(N, D, w)
         /\ NoStep(slurmd, w) => NoStep(D, w)
<1>0. w.node \in Nodes
  BY Zenon, RequestFields
<1>1. ASSUME Refuses(net, slurmd, w), NEW m \in Launches(N), m.sluid = w.sluid, m.node = w.node
      PROVE  Barred(D, m)
  <2>1. PICK v \in Launches(net) : m.sluid = v.sluid /\ m.node = v.node
    BY Zenon DEF NoMore
  <2>2. Barred(slurmd, v)
    BY Zenon, <1>1, <2>1 DEF Refuses
  <2> QED BY <1>0, <1>1, <2>1, <2>2 DEF Barred, NoMore
<1>2. ASSUME NoStep(slurmd, w), NEW p \in D[w.node].steps PROVE p.sluid # w.sluid
  <2>1. PICK q \in slurmd[w.node].steps : p.sluid = q.sluid
    BY Zenon, <1>0 DEF NoMore
  <2> QED BY Zenon, <1>2, <2>1 DEF NoStep
<1> QED BY Zenon, <1>1, <1>2 DEF Refuses, NoStep

\* A job of the table t that waits to be started waited before, or is new.
FreshFrom(t) ==
  \A i \in Ids : Fresh(t[i]) =>
    (Fresh(jobs[i]) /\ t[i].sluid = jobs[i].sluid) \/ t[i].sluid > sluids

\* What Endings says of one message.
Ending(N, D, w) ==
  /\ w.type = "TERMINATE" /\ w.begun => Refuses(N, D, w)
  /\ w.type = "EPILOG" => Refuses(N, D, w) /\ NoStep(D, w)

\* An incarnation that is spent remains so.
LEMMA SpentStays ==
  ASSUME sluids \in Nat, sluids' \in Nat, sluids <= sluids', jobs' \in Table, FreshFrom(jobs'),
         NEW s \in Nat, Spent(s)
  PROVE  Spent(s)'
<1>1. s <= sluids'
  BY DEF Spent
<1>2. ASSUME NEW i \in Ids, Fresh(jobs'[i]) PROVE jobs'[i].sluid # s
  <2>1. jobs'[i].sluid \in Nat
    BY Zenon, <1>2 DEF Fresh, Table, GoodRecord, JobRecord
  <2> QED BY <1>2, <2>1 DEF FreshFrom, Spent
<1> QED BY Zenon, <1>1, <1>2 DEF Spent, Fresh

\* A step that launches nothing keeps the invariant, if it keeps the table in
\* agreement and what it adds is justified.
LEMMA RunStep ==
  ASSUME TypeInv, TypeInv', RunInv, NoMore(net', slurmd'),
         \A m, w \in Launches(net') : m.sluid = w.sluid => m = w,
         \A n \in Nodes : \A p, q \in slurmd'[n].steps : p.sluid = q.sluid => p = q,
         Carried(jobs', net', slurmd'),
         \A s \in Nat : Seen(s)' => Seen(s) \/ Spent(s) \/ Spent(s)',
         FreshFrom(jobs'), sluids <= sluids', clock <= clock',
         \A k \in net' : k.type \in KillTypes =>
            \/ k.time = clock
            \/ \E w \in net : w.type \in KillTypes /\ w.sluid = k.sluid /\ w.time = k.time,
         \A n \in Nodes : \A c \in slurmd'[n].creds : c.revoked # 0 =>
            \/ \E e \in slurmd[n].creds : e.sluid = c.sluid /\ e.revoked = c.revoked
            \/ \E k \in net : k.type \in KillTypes /\ k.sluid = c.sluid /\ k.time = c.revoked,
         \A w \in net' : w \in net \/ Ending(net', slurmd', w)
  PROVE  RunInv'
<1>0. /\ sluids \in Nat /\ sluids' \in Nat /\ jobs' \in Table /\ clock \in Nat /\ clock' \in Nat
      /\ net \subseteq Message /\ net' \subseteq Message
      /\ slurmd \in [Nodes -> Slurmd] /\ slurmd' \in [Nodes -> Slurmd]
  BY Zenon DEF TypeInv, CtldType
<1>1. LaunchOnce'
  <2>1. ASSUME NEW m \in Launches(net'), NEW n \in Nodes, NEW p \in slurmd'[n].steps
        PROVE  m.sluid # p.sluid
    <3>1. PICK w \in Launches(net) : m.sluid = w.sluid
      BY Zenon DEF NoMore
    <3>2. PICK q \in slurmd[n].steps : p.sluid = q.sluid
      BY DEF NoMore
    <3> QED BY <3>1, <3>2 DEF RunInv, LaunchOnce
  <2>2. ASSUME NEW k \in Nodes, NEW n \in Nodes, NEW p \in slurmd'[k].steps,
               NEW q \in slurmd'[n].steps, p.sluid = q.sluid
        PROVE  k = n /\ p = q
    <3>1. PICK a \in slurmd[k].steps : p.sluid = a.sluid
      BY DEF NoMore
    <3>2. PICK b \in slurmd[n].steps : q.sluid = b.sluid
      BY DEF NoMore
    <3>3. a.sluid = b.sluid
      BY Zenon, <2>2, <3>1, <3>2
    <3>4. \A x, y \in Nodes : \A u \in slurmd[x].steps, v \in slurmd[y].steps :
            u.sluid = v.sluid => x = y
      BY Zenon DEF RunInv, LaunchOnce
    <3>5. k = n
      BY <3>3, <3>4, Zenon
    <3> QED BY Zenon, <2>2, <3>5
  <2>3. \A m, w \in Launches(net') : m.sluid = w.sluid => m = w
    BY Zenon
  <2> QED BY Zenon, <2>1, <2>2, <2>3 DEF LaunchOnce
<1>2. SpentInv'
  <2> SUFFICES ASSUME NEW s \in Nat, Seen(s)' PROVE Spent(s)'
    BY Zenon DEF SpentInv
  <2>1. Seen(s) => Spent(s)
    BY Zenon DEF RunInv, SpentInv
  <2> QED BY Zenon, <1>0, <2>1, SpentStays
<1>3. Times'
  <2> USE DEF RunInv, Times
  <2>0. clock' > 0
    BY <1>0
  <2>1. ASSUME NEW m \in Launches(net')
        PROVE  \E w \in Launches(net) : m.sluid = w.sluid /\ m.ctime = w.ctime
    BY Zenon DEF NoMore
  <2>2. ASSUME NEW m \in Launches(net') PROVE m.ctime <= clock /\ m.ctime <= clock'
    <3>1. PICK w \in Launches(net) : m.ctime = w.ctime
      BY Zenon, <2>1
    <3>2. w.ctime \in Nat
      BY Zenon, <1>0, RequestFields DEF Launches
    <3> QED BY <1>0, <3>1, <3>2
  <2>3. ASSUME NEW k \in net', k.type \in KillTypes
        PROVE  k.time > 0 /\ \A m \in Launches(net') : m.sluid = k.sluid => m.ctime <= k.time
    <3>1. CASE k.time = clock
      BY Zenon, <2>2, <3>1
    <3>2. ASSUME NEW w \in net, w.type \in KillTypes, w.sluid = k.sluid, w.time = k.time
          PROVE  k.time > 0 /\ \A m \in Launches(net') : m.sluid = k.sluid => m.ctime <= k.time
      BY SMTT(30), <2>1, <3>2
    <3> QED BY Zenon, <2>3, <3>1, <3>2
  <2>4. ASSUME NEW n \in Nodes, NEW c \in slurmd'[n].creds, NEW m \in Launches(net'),
               m.sluid = c.sluid, c.revoked # 0
        PROVE  m.ctime <= c.revoked
    <3>0. PICK w \in Launches(net) : m.sluid = w.sluid /\ m.ctime = w.ctime
      BY Zenon, <2>1
    <3>1. ASSUME NEW e \in slurmd[n].creds, e.sluid = c.sluid, e.revoked = c.revoked
          PROVE  m.ctime <= c.revoked
      BY SMTT(30), <2>4, <3>0, <3>1
    <3>2. ASSUME NEW k \in net, k.type \in KillTypes, k.sluid = c.sluid, k.time = c.revoked
          PROVE  m.ctime <= c.revoked
      BY SMTT(30), <2>4, <3>0, <3>2
    <3> QED BY Zenon, <2>4, <3>1, <3>2
  <2> QED BY Zenon, <2>0, <2>2, <2>3, <2>4
<1>4. Endings'
  <2> SUFFICES ASSUME NEW w \in net' PROVE Ending(net', slurmd', w)
    BY Zenon DEF Endings, Ending
  <2>1. CASE w \in net
    BY Zenon, <1>0, <2>1, EndingStays DEF RunInv, Endings, Ending
  <2> QED BY Zenon, <2>1
<1> QED BY Zenon, <1>1, <1>2, <1>3, <1>4 DEF RunInv

\* The shutdown's part: the file and the buffer stay, and so does what waits to
\* be started once the shutdown has been asked for.
LEMMA StopStep ==
  ASSUME TypeInv, TypeInv', Stops, NoMore(net', slurmd'), ctld' = ctld, file' = file,
         save'.at = save.at, save'.buffer = save.buffer, save.jobs => save'.jobs,
         ctld # "up" => \A i \in Ids : Fresh(jobs[i]) =>
                          Fresh(jobs'[i]) /\ jobs'[i].sluid = jobs[i].sluid
  PROVE  Stops'
<1>0. net \subseteq Message /\ net' \subseteq Message
  BY Zenon DEF TypeInv
<1>1. ASSUME NEW t, ctld # "up", Snapshot(t, jobs, net, slurmd)
      PROVE  Snapshot(t, jobs', net', slurmd')
  <2>1. Carried(t, net', slurmd')
    BY Zenon, <1>0, <1>1, CarriedStays DEF Snapshot
  <2> QED BY Zenon, <1>1, <2>1 DEF Snapshot
<1>2. ctld = "stopping" => ctld # "up"
  BY Zenon
<1>3. ctld = "stopped" => ctld # "up"
  BY Zenon
<1> QED BY Zenon, <1>1, <1>2, <1>3 DEF Stops

\* What the handlers do to a record: who has a node keeps it, and who waits to be
\* started afterwards did so before, or is a new incarnation.
LEMMA RecordKept ==
  ASSUME sluids \in Nat, NEW r \in GoodRecord, r # NULL, NEW t,
         \/ \E b \in BOOLEAN : t = JobComplete(r, b)
         \/ t = LaunchFailed(r)
         \/ \E b \in BOOLEAN : t \in {[r EXCEPT !.quiet = b], [r EXCEPT !.held = b]}
  PROVE  /\ \A s, n : Holds(r, s, n) => Holds(t, s, n)
         /\ Fresh(t) => (Fresh(r) /\ t.sluid = r.sluid) \/ t.sluid > sluids
         /\ (\E b \in BOOLEAN : t = JobComplete(r, b)) /\ Fresh(r) => t = r
<1>0. r \in JobRecord /\ r.state \in {"PENDING", "RUNNING", "DONE"} /\ r.cg \in BOOLEAN
      /\ NULL \notin JobRecord
  BY Zenon, NoRecordAssumption DEF GoodRecord, JobRecord
<1>8. /\ \A z \in {"PENDING", "DONE"} :
           LET e == Ended(r, z) IN e \in JobRecord /\ e.cg /\ e.node = r.node /\ e.sluid = r.sluid
      /\ LET e == [Ended(r, "PENDING") EXCEPT !.held = TRUE]
         IN e \in JobRecord /\ e.cg /\ e.node = r.node /\ e.sluid = r.sluid
  BY Zenon, <1>0 DEF Ended, JobRecord
<1>9. /\ LET e == [r EXCEPT !.state = "DONE"]
         IN e \in JobRecord /\ e.state = "DONE" /\ e.cg = r.cg /\ e.node = r.node /\ e.sluid = r.sluid
      /\ LET e == [r EXCEPT !.state = "PENDING", !.held = TRUE]
         IN e \in JobRecord /\ e.cg = r.cg /\ e.node = r.node /\ e.sluid = r.sluid
      /\ BatchRequeueFini([r EXCEPT !.held = TRUE]).sluid = sluids + 1
  BY Zenon, <1>0 DEF JobRecord, BatchRequeueFini, NewJob
<1>1. ASSUME NEW b \in BOOLEAN, t = JobComplete(r, b)
      PROVE  t = r \/ (r.state = "RUNNING" /\ t # NULL /\ t.cg /\ t.node = r.node /\ t.sluid = r.sluid)
  BY Zenon, <1>0, <1>1, <1>8 DEF JobComplete, Running
<1>2. ASSUME NEW b \in BOOLEAN, NEW x, x = [r EXCEPT !.held = b] \/ x = [r EXCEPT !.quiet = b]
      PROVE  x # NULL /\ x.state = r.state /\ x.cg = r.cg /\ x.node = r.node /\ x.sluid = r.sluid
  <2>1. CASE x = [r EXCEPT !.held = b]
    <3>1. x \in JobRecord /\ x.state = r.state /\ x.cg = r.cg /\ x.node = r.node /\ x.sluid = r.sluid
      BY Zenon, <1>0, <2>1 DEF JobRecord
    <3> QED BY Zenon, <1>0, <3>1
  <2>2. CASE x = [r EXCEPT !.quiet = b]
    <3>1. x \in JobRecord /\ x.state = r.state /\ x.cg = r.cg /\ x.node = r.node /\ x.sluid = r.sluid
      BY Zenon, <1>0, <2>2 DEF JobRecord
    <3> QED BY Zenon, <1>0, <3>1
  <2> QED BY Zenon, <1>2, <2>1, <2>2
<1>3. ASSUME t = LaunchFailed(r)
      PROVE  \/ t = r
             \/ r.cg /\ t # NULL /\ t.cg /\ t.node = r.node /\ t.sluid = r.sluid
             \/ r.state = "RUNNING" /\ t # NULL /\ t.cg /\ t.node = r.node /\ t.sluid = r.sluid
             \/ r.state # "RUNNING" /\ ~r.cg /\ t.state = "DONE"
             \/ r.state # "RUNNING" /\ ~r.cg /\ t.sluid = sluids + 1
  BY Zenon, <1>0, <1>3, <1>8, <1>9 DEF LaunchFailed, Running
<1>4. sluids + 1 > sluids
  OBVIOUS
<1>5. ASSUME NEW b \in BOOLEAN, t = JobComplete(r, b)
      PROVE  /\ \A s, n : Holds(r, s, n) => Holds(t, s, n)
             /\ Fresh(t) => (Fresh(r) /\ t.sluid = r.sluid)
             /\ Fresh(r) => t = r
  BY <1>1, <1>5 DEF Holds, Fresh
<1>6. ASSUME t = LaunchFailed(r)
      PROVE  /\ \A s, n : Holds(r, s, n) => Holds(t, s, n)
             /\ Fresh(t) => (Fresh(r) /\ t.sluid = r.sluid) \/ t.sluid > sluids
  BY Zenon, <1>3, <1>4, <1>6 DEF Holds, Fresh
<1>7. ASSUME NEW b \in BOOLEAN, t \in {[r EXCEPT !.quiet = b], [r EXCEPT !.held = b]}
      PROVE  /\ \A s, n : Holds(r, s, n) => Holds(t, s, n)
             /\ Fresh(t) => Fresh(r) /\ t.sluid = r.sluid
  BY Zenon, <1>2, <1>7 DEF Holds, Fresh
<1> QED BY Zenon, <1>5, <1>6, <1>7

\* The controller sends only kills of spent incarnations, and a launch request
\* may lose the agent that waits for it.
Sends ==
  \A m \in net' :
    \/ m \in net
    \/ \E w \in Launches(net) : w \notin net' /\ m = [w EXCEPT !.dead = TRUE]
    \/ /\ m.type \in KillTypes /\ ~m.begun /\ m.time = clock
       /\ Spent(m.sluid) \/ Spent(m.sluid)'
Shrinks ==
  \A n \in Nodes : slurmd'[n].steps \subseteq slurmd[n].steps /\ slurmd'[n].creds = slurmd[n].creds

\* Then nothing can be launched again.
LEMMA SendsNoMore ==
  ASSUME net \subseteq Message, Sends, Shrinks
  PROVE  NoMore(net', slurmd')
<1>1. ASSUME NEW m \in Launches(net')
      PROVE  \E w \in Launches(net) :
               m.sluid = w.sluid /\ m.id = w.id /\ m.node = w.node /\ m.ctime = w.ctime
  <2>0. m.type = "LAUNCH" /\ m.type \notin KillTypes
    BY Zenon, <1>1 DEF Launches, KillTypes
  <2>1. CASE m \in net
    BY Zenon, <2>0, <2>1 DEF Launches
  <2>2. ASSUME NEW w \in Launches(net), m = [w EXCEPT !.dead = TRUE]
        PROVE  m.sluid = w.sluid /\ m.id = w.id /\ m.node = w.node /\ m.ctime = w.ctime
    BY Zenon, <2>2, RequestFields DEF Launches
  <2> QED BY Zenon, <1>1, <2>0, <2>1, <2>2 DEF Sends, Launches
<1> QED BY Zenon, <1>1 DEF NoMore, Shrinks

\* ... and the first part of the invariant is kept.
LEMMA RunCtld ==
  ASSUME TypeInv, TypeInv', RunInv, Sends, Shrinks, Carried(jobs', net', slurmd'),
         FreshFrom(jobs'), sluids <= sluids', clock <= clock'
  PROVE  RunInv' /\ NoMore(net', slurmd')
<1>0. net \subseteq Message /\ net' \subseteq Message
  BY Zenon DEF TypeInv
<1>1. NoMore(net', slurmd')
  BY Zenon, <1>0, SendsNoMore
<1>2. ASSUME NEW m \in Launches(net'), NEW w \in Launches(net'), m.sluid = w.sluid
      PROVE  m = w
  <2>1. ASSUME NEW x \in Launches(net'), x \notin net
        PROVE  \E v \in Launches(net) :
                 v \notin net' /\ x = [v EXCEPT !.dead = TRUE] /\ x.sluid = v.sluid
    <3>1. x.type \notin KillTypes /\ x \in net'
      BY Zenon DEF Launches, KillTypes
    <3>2. PICK v \in Launches(net) : v \notin net' /\ x = [v EXCEPT !.dead = TRUE]
      BY Zenon, <2>1, <3>1 DEF Sends
    <3>3. x.sluid = v.sluid
      BY Zenon, <1>0, <3>2, RequestFields DEF Launches
    <3> QED BY Zenon, <3>2, <3>3
  <2>2. \A x, v \in Launches(net) : x.sluid = v.sluid => x = v
    BY Zenon DEF RunInv, LaunchOnce
  <2>3. \A x \in Launches(net') : x \in net' /\ (x \in net => x \in Launches(net))
    BY Zenon DEF Launches
  <2>4. CASE m \in net /\ w \in net
    BY Zenon, <1>2, <2>2, <2>3, <2>4
  <2>5. CASE m \in net /\ w \notin net
    BY Zenon, <1>2, <2>1, <2>2, <2>3, <2>5
  <2>6. CASE m \notin net /\ w \in net
    BY Zenon, <1>2, <2>1, <2>2, <2>3, <2>6
  <2>7. CASE m \notin net /\ w \notin net
    BY Zenon, <1>2, <2>1, <2>2, <2>7
  <2> QED BY Zenon, <2>4, <2>5, <2>6, <2>7
<1>3. \A n \in Nodes : \A p, q \in slurmd'[n].steps : p.sluid = q.sluid => p = q
  BY DEF Shrinks, RunInv, LaunchOnce
<1>4. ASSUME NEW w \in net', w \notin net
      PROVE  /\ w.type \in KillTypes => w.time = clock
             /\ Ending(net', slurmd', w)
             /\ w.type # "REGISTRATION"
             /\ Seen(w.sluid) \/ Spent(w.sluid) \/ Spent(w.sluid)'
  <2>1. ASSUME NEW v \in Launches(net), w = [v EXCEPT !.dead = TRUE]
        PROVE  w.type = "LAUNCH" /\ Seen(w.sluid)
    <3>1. v \in net /\ v.type = "LAUNCH" /\ w.type = "LAUNCH" /\ w.sluid = v.sluid
      BY Zenon, <1>0, <2>1, RequestFields DEF Launches
    <3> QED BY Zenon, <3>1 DEF Seen
  <2>2. (w.type = "LAUNCH" /\ Seen(w.sluid))
        \/ (w.type \in KillTypes /\ ~w.begun /\ w.time = clock /\ (Spent(w.sluid) \/ Spent(w.sluid)'))
    BY Zenon, <1>4, <2>1 DEF Sends
  <2> QED BY Zenon, <2>2 DEF Ending, KillTypes
<1>5. ASSUME NEW s \in Nat, Seen(s)' PROVE Seen(s) \/ Spent(s) \/ Spent(s)'
  <2>1. ASSUME NEW m \in net', m.type # "REGISTRATION", m.sluid = s
        PROVE  Seen(s) \/ Spent(s) \/ Spent(s)'
    <3>1. CASE m \in net
      BY Zenon, <2>1, <3>1 DEF Seen
    <3> QED BY Zenon, <1>4, <2>1, <3>1
  <2>2. ASSUME NEW m \in net', m.type = "REGISTRATION", NEW x \in m.steps, x[2] = s
        PROVE  Seen(s)
    BY Zenon, <1>4, <2>2 DEF Seen
  <2>3. ASSUME NEW n \in Nodes, (\E p \in slurmd'[n].steps : p.sluid = s)
                                \/ (\E c \in slurmd'[n].creds : c.sluid = s)
        PROVE  Seen(s)
    BY Zenon, <2>3 DEF Seen, Shrinks
  <2>4. \/ \E m \in net' : m.type # "REGISTRATION" /\ m.sluid = s
        \/ \E m \in net' : m.type = "REGISTRATION" /\ \E x \in m.steps : x[2] = s
        \/ \E n \in Nodes : (\E p \in slurmd'[n].steps : p.sluid = s)
                            \/ (\E c \in slurmd'[n].creds : c.sluid = s)
    BY <1>5, Zenon DEF Seen
  <2> QED BY Zenon, <2>1, <2>2, <2>3, <2>4
<1>6. \A k \in net' : k.type \in KillTypes =>
            \/ k.time = clock
            \/ \E w \in net : w.type \in KillTypes /\ w.sluid = k.sluid /\ w.time = k.time
  BY Zenon, <1>4
<1>7. \A n \in Nodes : \A c \in slurmd'[n].creds : c.revoked # 0 =>
            \/ \E e \in slurmd[n].creds : e.sluid = c.sluid /\ e.revoked = c.revoked
            \/ \E k \in net : k.type \in KillTypes /\ k.sluid = c.sluid /\ k.time = c.revoked
  BY Zenon DEF Shrinks
<1>8. RunInv'
  BY Zenon, <1>1, <1>2, <1>3, <1>4, <1>5, <1>6, <1>7, RunStep
<1> QED BY Zenon, <1>1, <1>8

\* A step of the controller that leaves the file and where the save thread is.
LEMMA OnceCtld ==
  ASSUME TypeInv, TypeInv', OnceInv, crashed' = crashed, ctld' = ctld, file' = file,
         save'.at = save.at, save'.buffer = save.buffer, save.jobs => save'.jobs,
         sluids <= sluids', clock <= clock', Shrinks, FreshFrom(jobs'),
         ~crashed => Sends /\ Carried(jobs', net', slurmd'),
         ctld # "up" => \A i \in Ids : Fresh(jobs[i]) => jobs'[i] = jobs[i]
  PROVE  OnceInv'
<1> SUFFICES ASSUME ~crashed PROVE RunInv' /\ Stops'
  BY Zenon DEF OnceInv
<1>1. RunInv' /\ NoMore(net', slurmd')
  BY Zenon, RunCtld DEF OnceInv
<1>2. ctld # "up" => \A i \in Ids : Fresh(jobs[i]) =>
                       Fresh(jobs'[i]) /\ jobs'[i].sluid = jobs[i].sluid
  BY Zenon
<1>3. Stops'
  BY Zenon, <1>1, <1>2, StopStep DEF OnceInv
<1> QED BY Zenon, <1>1, <1>3

\* The handlers are such steps.
LEMMA OnceHandler ==
  ASSUME TypeInv, TypeInv', OnceInv, NEW t, NEW b, Handle(t, b), sluids <= sluids', Shrinks,
         FreshFrom(t), ~crashed => Sends /\ Carried(t, net', slurmd'),
         ctld # "up" => \A i \in Ids : Fresh(jobs[i]) => t[i] = jobs[i]
  PROVE  OnceInv'
<1>1. SaveRec /\ clock \in Nat
  BY Zenon DEF TypeInv, CtldType, SaveType
<1>2. /\ jobs' = t /\ UNCHANGED <<ctld, file, crashed, clock>>
      /\ save'.at = save.at /\ save'.buffer = save.buffer
  BY Zenon, <1>1, HandleImages DEF Handle
<1>3. save.jobs => save'.jobs
  BY Zenon, <1>1 DEF Handle, ScheduleJobSave, SaveRec
<1>4. clock <= clock'
  BY SMTT(30), <1>1, <1>2
<1> QED BY Zenon, <1>2, <1>3, <1>4, OnceCtld

\* If whoever has a node keeps it, the table stays in agreement.
LEMMA HoldsCarried ==
  ASSUME TypeInv, TypeInv', RunInv, Sends, Shrinks, NEW t,
         \A i \in Ids : \A s, n : Holds(jobs[i], s, n) => Holds(t[i], s, n)
  PROVE  Carried(t, net', slurmd')
<1>0. net \subseteq Message /\ net' \subseteq Message /\ slurmd' \in [Nodes -> Slurmd]
  BY Zenon DEF TypeInv
<1>1. Carried(jobs, net', slurmd')
  BY Zenon, <1>0, SendsNoMore, CarriedStays DEF RunInv
<1>2. \A n \in Nodes : \A p \in slurmd'[n].steps : p.id \in Ids
  BY <1>0 DEF Slurmd, Stepd
<1>3. \A m \in Launches(net') : m.id \in Ids
  BY Zenon, <1>0, RequestFields DEF Launches
<1> QED BY Zenon, <1>1, <1>2, <1>3 DEF Carried

\* An incarnation whose job has left the queue is spent.
LEMMA RecordSpent ==
  ASSUME TypeInv, SluidInv, NEW i \in Ids, jobs[i] # NULL, ~Fresh(jobs[i])
  PROVE  Spent(jobs[i].sluid)
<1>0. jobs \in Table
  BY Zenon DEF TypeInv, CtldType
<1>1. jobs[i].sluid \in Nat /\ RecOf(jobs, i, jobs[i].sluid)
  BY Zenon, <1>0, RecordSluid
<1>2. jobs[i].sluid <= sluids
  BY Zenon, <1>1 DEF SluidInv, Owner
<1>3. ASSUME NEW j \in Ids, Fresh(jobs[j]), jobs[j].sluid = jobs[i].sluid PROVE FALSE
  <2>1. i = j
    BY Zenon, <1>1, <1>3 DEF SluidInv, Owner, RecOf, Fresh
  <2> QED BY Zenon, <1>3, <2>1
<1> QED BY Zenon, <1>2, <1>3 DEF Spent

\* So is that of a kill from deallocate_nodes().
LEMMA DeallocateSends ==
  ASSUME TypeInv, SluidInv, NEW i \in Ids, NEW m \in Deallocate(i)
  PROVE  m.type \in KillTypes /\ ~m.begun /\ m.time = clock /\ Spent(m.sluid)
<1>1. m.type = "TERMINATE" /\ Running(jobs[i]) /\ ~m.begun /\ m.time = clock
      /\ m.sluid = jobs[i].sluid
  BY Zenon, DeallocateOwner
<1>2. Spent(jobs[i].sluid)
  BY Zenon, <1>1, RecordSpent DEF Running, Fresh
<1> QED BY Zenon, <1>1, <1>2 DEF KillTypes

\* The steps of slurmctld about one job, but for its start.
LEMMA JobActsOnce ==
  ASSUME TypeInv, TypeInv', SluidInv, OnceInv, NEW i \in Ids,
         Release(i) \/ ReKillJob(i) \/ PurgeOldJob(i) \/ TimePasses(i)
  PROVE  OnceInv'
<1>0. jobs \in Table /\ clock \in Nat /\ sluids \in Nat /\ sluids <= sluids
  BY DEF TypeInv, CtldType
<1>1. jobs[i] # NULL => jobs[i] \in GoodRecord
  BY Zenon, <1>0 DEF Table
<1>2. ctld = "up" /\ jobs[i] # NULL /\ UNCHANGED <<slurmd, sluids>>
  BY Zenon DEF Release, ReKillJob, PurgeOldJob, TimePasses, Completing
<1>3. Shrinks
  BY Zenon, <1>2 DEF Shrinks
<1>4. Sends
  <2>1. CASE ReKillJob(i)
    <3> DEFINE m == Kill("TERMINATE", i, jobs[i], jobs[i].node)
    <3>1. Spent(jobs[i].sluid)
      BY Zenon, <1>2, <2>1, RecordSpent DEF ReKillJob, Completing, Fresh
    <3>2. m.type = "TERMINATE" /\ ~m.begun /\ m.time = clock /\ m.sluid = jobs[i].sluid
      BY Zenon DEF Kill
    <3>3. net' = net \cup {m}
      BY Zenon, <2>1 DEF ReKillJob
    <3> HIDE DEF m
    <3> QED BY Zenon, <3>1, <3>2, <3>3 DEF Sends, KillTypes
  <2>2. CASE ~ReKillJob(i)
    BY Zenon, <2>2 DEF Sends, Release, PurgeOldJob, TimePasses
  <2> QED BY Zenon, <2>1, <2>2
<1>5. ASSUME NEW r, NEW b, Handle([jobs EXCEPT ![i] = r], b),
             \A s, n : Holds(jobs[i], s, n) => Holds(r, s, n),
             Fresh(r) => (Fresh(jobs[i]) /\ r.sluid = jobs[i].sluid) \/ r.sluid > sluids
      PROVE  OnceInv'
  <2> DEFINE t == [jobs EXCEPT ![i] = r]
  <2>1. t[i] = r /\ \A j \in Ids \ {i} : t[j] = jobs[j]
    BY Zenon, <1>0 DEF Table
  <2>2. Handle(t, b)
    BY Zenon, <1>5
  <2> HIDE DEF t
  <2>3. FreshFrom(t)
    BY Zenon, <1>5, <2>1 DEF FreshFrom
  <2>4. \A j \in Ids : \A s, n : Holds(jobs[j], s, n) => Holds(t[j], s, n)
    BY Zenon, <1>5, <2>1
  <2>5. ~crashed => Carried(t, net', slurmd')
    BY Zenon, <1>3, <1>4, <2>4, HoldsCarried DEF OnceInv
  <2> QED BY Zenon, <1>0, <1>2, <1>3, <1>4, <2>2, <2>3, <2>5, OnceHandler
<1>6. CASE Release(i)
  <2> DEFINE r == [jobs[i] EXCEPT !.held = FALSE]
  <2>1. /\ \A s, n : Holds(jobs[i], s, n) => Holds(r, s, n)
        /\ Fresh(r) => (Fresh(jobs[i]) /\ r.sluid = jobs[i].sluid) \/ r.sluid > sluids
    BY Zenon, <1>0, <1>1, <1>2, RecordKept
  <2>2. Handle([jobs EXCEPT ![i] = r], TRUE)
    BY Zenon, <1>6 DEF Release
  <2> HIDE DEF r
  <2> QED BY Zenon, <1>5, <2>1, <2>2
<1>7. ASSUME NEW b \in BOOLEAN, Handle([jobs EXCEPT ![i].quiet = b], FALSE)
      PROVE  OnceInv'
  <2> DEFINE r == [jobs[i] EXCEPT !.quiet = b]
  <2>1. /\ \A s, n : Holds(jobs[i], s, n) => Holds(r, s, n)
        /\ Fresh(r) => (Fresh(jobs[i]) /\ r.sluid = jobs[i].sluid) \/ r.sluid > sluids
    BY Zenon, <1>0, <1>1, <1>2, RecordKept
  <2>2. Handle([jobs EXCEPT ![i] = r], FALSE)
    BY Zenon, <1>7
  <2> HIDE DEF r
  <2> QED BY Zenon, <1>5, <2>1, <2>2
<1>8. CASE ReKillJob(i) \/ TimePasses(i)
  BY Zenon, <1>7, <1>8 DEF ReKillJob, TimePasses
<1>9. CASE PurgeOldJob(i)
  <2>1. PICK r \in {NULL} : Handle([jobs EXCEPT ![i] = r], FALSE)
    BY Zenon, <1>9 DEF PurgeOldJob
  <2>2. \A s, n : ~Holds(jobs[i], s, n)
    BY Zenon, <1>9 DEF PurgeOldJob, Holds
  <2>3. ~Fresh(r)
    BY Zenon DEF Fresh
  <2> QED BY Zenon, <1>5, <2>1, <2>2, <2>3
<1> QED BY Zenon, <1>6, <1>8, <1>9

\* A job is started: there is no trace of its incarnation yet.
LEMMA StartOnce ==
  ASSUME TypeInv, TypeInv', SluidInv, OnceInv, NEW i \in Ids, NEW n \in Nodes, Start(i, n)
  PROVE  OnceInv'
<1> DEFINE s == jobs[i].sluid
           m == [type |-> "LAUNCH", id |-> i, node |-> n, sluid |-> s, ctime |-> clock,
                 dead |-> FALSE]
           r == [jobs[i] EXCEPT !.state = "RUNNING", !.node = n, !.start = clock,
                                !.quiet = FALSE]
<1> SUFFICES ASSUME ~crashed' PROVE RunInv' /\ Stops'
  BY Zenon DEF OnceInv
<1>0. /\ ctld' = "up" /\ net' = net \cup {m} /\ jobs' = [jobs EXCEPT ![i] = r]
      /\ UNCHANGED <<slurmd, sluids, clock, crashed>> /\ ctld = "up"
      /\ Fresh(jobs[i]) /\ jobs[i] # NULL
  BY Zenon DEF Start, Handle, Fresh
<1>1. /\ jobs \in Table /\ jobs' \in Table /\ clock \in Nat /\ sluids \in Nat /\ net \subseteq Message
      /\ slurmd \in [Nodes -> Slurmd]
  BY Zenon DEF TypeInv, CtldType
<1>2. RunInv
  BY Zenon, <1>0 DEF OnceInv
<1>3. s \in Nat /\ RecOf(jobs, i, s) /\ s <= sluids
  <2>1. s \in Nat /\ RecOf(jobs, i, s)
    BY Zenon, <1>0, <1>1, RecordSluid
  <2> QED BY Zenon, <2>1 DEF SluidInv, Owner
<1>4. ~Seen(s)
  BY Zenon, <1>0, <1>2, <1>3 DEF RunInv, SpentInv, Spent
<1>5. /\ jobs'[i] = r /\ \A j \in Ids \ {i} : jobs'[j] = jobs[j]
      /\ r.state = "RUNNING" /\ r.node = n /\ r.sluid = s /\ r # NULL
  <2>1. jobs[i] \in JobRecord
    BY Zenon, <1>0, <1>1 DEF Table, GoodRecord
  <2>2. r \in JobRecord /\ r.state = "RUNNING" /\ r.node = n /\ r.sluid = s
    BY Zenon, <1>1, <2>1 DEF JobRecord
  <2>3. r # NULL
    BY Zenon, <2>2, NoRecordAssumption
  <2> QED BY Zenon, <1>0, <1>1, <2>2, <2>3 DEF Table
<1>6. /\ m.type = "LAUNCH" /\ m.id = i /\ m.node = n /\ m.sluid = s /\ m.ctime = clock
      /\ m.type # "TERMINATE" /\ m.type # "EPILOG" /\ m.type # "REGISTRATION"
      /\ m.type \notin KillTypes
  BY Zenon DEF KillTypes
<1> HIDE DEF m, r
<1>7. Launches(net') = Launches(net) \cup {m}
  BY Zenon, <1>0, <1>6 DEF Launches
<1>8. /\ \A w \in net : w.type # "REGISTRATION" => w.sluid # s
      /\ \A k \in Nodes : \A p \in slurmd[k].steps : p.sluid # s
      /\ \A k \in Nodes : \A c \in slurmd[k].creds : c.sluid # s
  BY Zenon, <1>4 DEF Seen
<1>9. \A w \in Launches(net) : w \in net /\ w.sluid # s /\ w.type = "LAUNCH"
  BY Zenon, <1>8 DEF Launches
<1> HIDE DEF s
<1>10. LaunchOnce'
  BY SMTT(30), <1>0, <1>2, <1>6, <1>7, <1>8, <1>9 DEF LaunchOnce, RunInv
<1>11. Carried(jobs', net', slurmd')
  <2>1. \A x, k : ~Holds(jobs[i], x, k)
    BY Zenon, <1>0 DEF Holds, Fresh
  <2>2. Holds(jobs'[m.id], m.sluid, m.node)
    BY Zenon, <1>5, <1>6 DEF Holds
  <2>3. \A k \in Nodes : \A p \in slurmd[k].steps : p.id \in Ids
    BY <1>1 DEF Slurmd, Stepd
  <2>4. \A w \in Launches(net) : w.id \in Ids
    BY Zenon, <1>1, RequestFields DEF Launches
  <2>5. Carried(jobs, net, slurmd)
    BY Zenon, <1>2 DEF RunInv
  <2>6. \A k \in Nodes : \A p \in slurmd[k].steps : Holds(jobs'[p.id], p.sluid, k)
    BY Zenon, <1>5, <2>1, <2>3, <2>5 DEF Carried
  <2>7. \A w \in Launches(net) : Barred(slurmd, w) \/ Holds(jobs'[w.id], w.sluid, w.node)
    BY Zenon, <1>5, <2>1, <2>4, <2>5 DEF Carried
  <2> QED BY Zenon, <1>0, <1>7, <2>2, <2>6, <2>7 DEF Carried
<1>12. SpentInv'
  <2> SUFFICES ASSUME NEW x \in Nat, Seen(x)' PROVE Spent(x)'
    BY Zenon DEF SpentInv
  <2>1. FreshFrom(jobs')
    BY Zenon, <1>5 DEF FreshFrom, Fresh
  <2>2. Seen(x) \/ x = s
    BY Zenon, <1>0, <1>6 DEF Seen
  <2>3. CASE Seen(x)
    <3>1. Spent(x) /\ sluids' = sluids /\ sluids <= sluids
      BY SMTT(30), <1>0, <1>1, <1>2, <2>3 DEF RunInv, SpentInv
    <3> QED BY Zenon, <1>1, <2>1, <3>1, SpentStays
  <2>4. CASE x = s
    <3>1. \A j \in Ids : Fresh(jobs'[j]) => j # i
      BY Zenon, <1>5 DEF Fresh
    <3>2. \A j \in Ids : Fresh(jobs'[j]) => jobs'[j] = jobs[j] /\ jobs[j] # NULL
      BY Zenon, <1>5, <3>1 DEF Fresh
    <3>3. \A j \in Ids : RecOf(jobs, j, s) => j = i
      BY Zenon, <1>3 DEF SluidInv, Owner
    <3>4. \A j \in Ids : Fresh(jobs'[j]) => jobs'[j].sluid # s
      BY Zenon, <3>1, <3>2, <3>3 DEF RecOf
    <3> QED BY Zenon, <1>0, <1>3, <2>4, <3>4 DEF Spent
  <2> QED BY Zenon, <2>2, <2>3, <2>4
<1>13. Times'
  <2>1. \A k \in net' : k.type \in KillTypes => k \in net /\ k.sluid # s
    BY Zenon, <1>0, <1>6, <1>8 DEF KillTypes
  <2>2. clock <= clock
    BY <1>1
  <2> QED BY Zenon, <1>0, <1>2, <1>6, <1>7, <1>8, <2>1, <2>2 DEF Times, RunInv
<1>14. Endings'
  <2> SUFFICES ASSUME NEW w \in net'
               PROVE  /\ w.type = "TERMINATE" /\ w.begun => Refuses(net', slurmd', w)
                      /\ w.type = "EPILOG" => Refuses(net', slurmd', w) /\ NoStep(slurmd', w)
    BY Zenon DEF Endings
  <2>1. w.type \in {"TERMINATE", "EPILOG"} => w \in net /\ w.sluid # s
    BY Zenon, <1>0, <1>6, <1>8
  <2>2. w.type \in {"TERMINATE", "EPILOG"} /\ Refuses(net, slurmd, w) => Refuses(net', slurmd', w)
    BY Zenon, <1>0, <1>6, <1>7, <2>1 DEF Refuses
  <2> QED BY Zenon, <1>0, <1>2, <2>1, <2>2 DEF RunInv, Endings
<1>15. Stops'
  BY Zenon, <1>0 DEF Stops
<1> QED BY Zenon, <1>10, <1>11, <1>12, <1>13, <1>14, <1>15 DEF RunInv

\* A slurmstepd's report: the job completes.
LEMMA CompleteOnce ==
  ASSUME TypeInv, TypeInv', SluidInv, OnceInv, NEW n \in Nodes, NEW p \in slurmd[n].steps,
         NEW again \in BOOLEAN, CompleteBatchScript(n, p, again)
  PROVE  OnceInv'
<1> DEFINE own == {i \in Find(p.sluid) : jobs[i].node \in {NULL, n}}
           t == [i \in Ids |-> IF i \in own THEN JobComplete(jobs[i], FALSE) ELSE jobs[i]]
           b == \E i \in own : jobs[i].state # "DONE"
<1>0. jobs \in Table /\ slurmd \in [Nodes -> Slurmd] /\ slurmd[n] \in Slurmd /\ sluids \in Nat
  BY Zenon DEF TypeInv, CtldType
<1>1. Handle(t, b) /\ net' = net \cup UNION {Deallocate(i) : i \in own} /\ sluids' = sluids
      /\ ctld = "up"
  BY Zenon DEF CompleteBatchScript
<1>2. own \subseteq Ids /\ \A i \in own : jobs[i] # NULL /\ jobs[i] \in GoodRecord
  BY Zenon, <1>0 DEF Find, Table
<1>3. Shrinks
  <2>1. CASE again
    BY Zenon, <2>1 DEF CompleteBatchScript, Shrinks
  <2>2. CASE ~again
    BY <1>0, <2>2 DEF CompleteBatchScript, Slurmd, Shrinks
  <2> QED BY Zenon, <2>1, <2>2
<1>4. \A i \in Ids : (i \in own /\ t[i] = JobComplete(jobs[i], FALSE)) \/ t[i] = jobs[i]
  BY Zenon
<1> HIDE DEF own, t, b
<1>5. FALSE \in BOOLEAN
  BY Zenon
<1>6. \A i \in Ids : /\ \A x, k : Holds(jobs[i], x, k) => Holds(t[i], x, k)
                     /\ Fresh(t[i]) => (Fresh(jobs[i]) /\ t[i].sluid = jobs[i].sluid) \/ t[i].sluid > sluids
  BY Zenon, <1>0, <1>2, <1>4, <1>5, RecordKept
<1>7. Sends
  BY Zenon, <1>1, <1>2, DeallocateSends DEF Sends
<1>8. ~crashed => Carried(t, net', slurmd')
  BY Zenon, <1>3, <1>6, <1>7, HoldsCarried DEF OnceInv
<1>9. FreshFrom(t) /\ sluids <= sluids'
  BY SMTT(30), <1>0, <1>1, <1>6 DEF FreshFrom
<1> QED BY Zenon, <1>1, <1>3, <1>7, <1>8, <1>9, OnceHandler

\* The epilog is reported: no slurmstepd and no launch request that slurmd would
\* take is left of the job that gives up its node.
LEMMA EpilogOnce ==
  ASSUME TypeInv, TypeInv', SluidInv, OnceInv, NEW m \in net, EpilogComplete(m)
  PROVE  OnceInv'
<1> DEFINE hit  == {i \in Find(m.sluid) : jobs[i].cg /\ jobs[i].node = m.node}
           fini == {i \in hit : jobs[i].state = "PENDING"}
           t == [i \in Ids |-> CASE i \in fini -> BatchRequeueFini(jobs[i])
                                 [] i \in hit \ fini -> [jobs[i] EXCEPT !.cg = FALSE]
                                 [] OTHER -> jobs[i]]
<1>0. jobs \in Table /\ slurmd \in [Nodes -> Slurmd] /\ sluids \in Nat /\ net \subseteq Message
  BY Zenon DEF TypeInv, CtldType
<1>1. /\ Handle(t, hit # {} /\ ctld = "up") /\ net' = net \ {m} /\ UNCHANGED slurmd
      /\ sluids' = sluids + NewSluids(fini) /\ m.type = "EPILOG"
  BY Zenon DEF EpilogComplete
<1>2. /\ hit \subseteq Ids /\ fini \subseteq Ids /\ fini \subseteq hit
      /\ \A i \in hit : /\ jobs[i] # NULL /\ jobs[i] \in GoodRecord /\ jobs[i].cg
                        /\ jobs[i].node = m.node /\ jobs[i].sluid = m.sluid
      /\ \A i \in hit \ fini : jobs[i].state # "PENDING"
  BY Zenon, <1>0 DEF Find, Table
<1>3. \A i \in Ids : \/ i \in fini /\ t[i] = BatchRequeueFini(jobs[i])
                     \/ i \in hit \ fini /\ t[i] = [jobs[i] EXCEPT !.cg = FALSE]
                     \/ i \notin hit /\ t[i] = jobs[i]
  BY Zenon
<1>4. sluids <= sluids'
  <2>1. NewSluids(fini) \in Nat
    BY Zenon, CountTyped
  <2> HIDE DEF fini
  <2> QED BY SMTT(30), <1>0, <1>1, <2>1
<1> HIDE DEF hit, fini, t
<1>5. Shrinks /\ Sends
  BY Zenon, <1>1 DEF Shrinks, Sends
<1>6. FreshFrom(t)
  <2>1. \A i \in fini : BatchRequeueFini(jobs[i]).sluid = sluids + 1
    BY Zenon DEF BatchRequeueFini, NewJob
  <2>2. sluids + 1 > sluids
    BY <1>0
  <2>3. \A i \in hit \ fini : [jobs[i] EXCEPT !.cg = FALSE].state = jobs[i].state
    BY Zenon, <1>2 DEF GoodRecord, JobRecord
  <2>4. \A i \in hit \ fini : ~Fresh([jobs[i] EXCEPT !.cg = FALSE])
    BY Zenon, <1>2, <2>3 DEF Fresh
  <2> QED BY Zenon, <1>3, <2>1, <2>2, <2>4 DEF FreshFrom
<1>7. \A i \in Ids : Fresh(jobs[i]) => t[i] = jobs[i]
  BY Zenon, <1>2, <1>3 DEF Fresh
<1>8. ASSUME ~crashed PROVE Carried(t, net', slurmd')
  <2>1. Carried(jobs, net, slurmd) /\ Refuses(net, slurmd, m) /\ NoStep(slurmd, m)
    BY Zenon, <1>1, <1>8 DEF OnceInv, RunInv, Endings
  <2>2. \A i \in hit : \A x, k : Holds(jobs[i], x, k) => x = m.sluid /\ k = m.node
    BY Zenon, <1>2 DEF Holds
  <2>3. ASSUME NEW k \in Nodes, NEW p \in slurmd[k].steps PROVE Holds(t[p.id], p.sluid, k)
    <3>1. p.id \in Ids /\ Holds(jobs[p.id], p.sluid, k)
      BY SMTT(30), <1>0, <2>1 DEF Carried, Slurmd, Stepd
    <3>2. p.id \notin hit
      <4>1. p.id \in hit => p.sluid = m.sluid /\ k = m.node
        BY Zenon, <2>2, <3>1
      <4>2. p.sluid # m.sluid \/ k # m.node
        BY Zenon, <2>1, <2>3 DEF NoStep
      <4> QED BY Zenon, <4>1, <4>2
    <3> QED BY Zenon, <1>2, <1>3, <3>1, <3>2
  <2>4. ASSUME NEW w \in Launches(net)
        PROVE  Barred(slurmd, w) \/ Holds(t[w.id], w.sluid, w.node)
    <3>1. w.id \in Ids /\ (Barred(slurmd, w) \/ Holds(jobs[w.id], w.sluid, w.node))
      BY Zenon, <1>0, <2>1, RequestFields DEF Carried, Launches
    <3>2. CASE w.id \in hit
      BY SMTT(30), <2>1, <2>2, <3>1, <3>2 DEF Refuses
    <3>3. CASE w.id \notin hit
      BY Zenon, <1>2, <1>3, <3>1, <3>3
    <3> QED BY Zenon, <3>2, <3>3
  <2>5. Launches(net') \subseteq Launches(net)
    BY Zenon, <1>1 DEF Launches
  <2> QED BY Zenon, <1>1, <2>3, <2>4, <2>5 DEF Carried
<1> QED BY Zenon, <1>1, <1>4, <1>5, <1>6, <1>7, <1>8, OnceHandler

\* The handlers that change the records as RecordKept says.
LEMMA TableOnce ==
  ASSUME TypeInv, TypeInv', SluidInv, OnceInv, NEW t, NEW b, Handle(t, b), UNCHANGED slurmd,
         sluids <= sluids', ~crashed => Sends,
         \A i \in Ids :
           \/ t[i] = jobs[i]
           \/ /\ jobs[i] # NULL
              /\ \/ \E c \in BOOLEAN : t[i] = JobComplete(jobs[i], c)
                 \/ ctld = "up" /\ t[i] \in {LaunchFailed(jobs[i]), [jobs[i] EXCEPT !.quiet = FALSE]}
  PROVE  OnceInv'
<1>0. jobs \in Table /\ sluids \in Nat
  BY Zenon DEF TypeInv, CtldType
<1>1. \A i \in Ids : jobs[i] # NULL => jobs[i] \in GoodRecord
  BY Zenon, <1>0 DEF Table
<1>2. Shrinks
  BY Zenon DEF Shrinks
<1>3. ASSUME NEW i \in Ids
      PROVE  /\ \A s, n : Holds(jobs[i], s, n) => Holds(t[i], s, n)
             /\ Fresh(t[i]) => (Fresh(jobs[i]) /\ t[i].sluid = jobs[i].sluid) \/ t[i].sluid > sluids
             /\ ctld # "up" /\ Fresh(jobs[i]) => t[i] = jobs[i]
  <2>1. CASE t[i] = jobs[i]
    BY Zenon, <2>1
  <2>2. CASE jobs[i] # NULL /\ \E c \in BOOLEAN : t[i] = JobComplete(jobs[i], c)
    BY Zenon, <1>0, <1>1, <2>2, RecordKept
  <2>3. CASE jobs[i] # NULL /\ ctld = "up" /\ t[i] = LaunchFailed(jobs[i])
    BY Zenon, <1>0, <1>1, <2>3, RecordKept
  <2>4. CASE jobs[i] # NULL /\ ctld = "up" /\ t[i] = [jobs[i] EXCEPT !.quiet = FALSE]
    <3>1. PICK c \in {FALSE} : t[i] = [jobs[i] EXCEPT !.quiet = c]
      BY Zenon, <2>4
    <3> QED BY Zenon, <1>0, <1>1, <2>4, <3>1, RecordKept
  <2> QED BY Zenon, <2>1, <2>2, <2>3, <2>4
<1>4. FreshFrom(t)
  BY Zenon, <1>3 DEF FreshFrom
<1>5. ~crashed => Carried(t, net', slurmd')
  BY Zenon, <1>2, <1>3, HoldsCarried DEF OnceInv
<1> QED BY Zenon, <1>2, <1>3, <1>4, <1>5, OnceHandler

\* The other messages slurmctld handles.
LEMMA CtldActsOnce ==
  ASSUME TypeInv, TypeInv', SluidInv, OnceInv, NEW m \in net,
         CtldReceives(m) \/ NoResponse(m) \/ LoseMessage(m)
  PROVE  OnceInv'
<1>0. /\ jobs \in Table /\ net \subseteq Message /\ m \in Message /\ case.requeue \in BOOLEAN
      /\ sluids \in Nat /\ clock \in Nat /\ sluids <= sluids
  BY DEF TypeInv, CtldType, CaseType
<1>3. \A s : Find(s) \subseteq Ids /\ \A i \in Find(s) : jobs[i] # NULL
  BY Zenon DEF Find
<1>5. CASE JobRequeue(m)
  <2> DEFINE hit  == Find(m.sluid)
             fini == {i \in hit : case.requeue /\ jobs[i].state = "DONE" /\ ~jobs[i].cg}
             t == [i \in Ids |-> IF i \in hit THEN LaunchFailed(jobs[i]) ELSE jobs[i]]
  <2>1. \A i \in Ids : (i \in hit /\ t[i] = LaunchFailed(jobs[i])) \/ t[i] = jobs[i]
    BY Zenon
  <2>2. Handle(t, hit # {}) /\ net' = (net \ {m}) \cup UNION {Deallocate(i) : i \in hit}
        /\ UNCHANGED slurmd /\ ctld = "up" /\ sluids' = sluids + NewSluids(fini)
    BY Zenon, <1>5 DEF JobRequeue
  <2>3. NewSluids(fini) \in Nat
    BY Zenon, CountTyped
  <2> HIDE DEF t, fini
  <2>4. sluids <= sluids'
    BY <1>0, <2>2, <2>3
  <2>5. Sends
    BY Zenon, <1>3, <2>2, DeallocateSends DEF Sends
  <2>6. \A i \in hit : i \in Ids /\ jobs[i] # NULL
    BY Zenon, <1>3
  <2> HIDE DEF hit
  <2> QED BY Zenon, <2>1, <2>2, <2>4, <2>5, <2>6, TableOnce
<1>6. ASSUME NEW b \in BOOLEAN, NEW left, AgentEnds(m, b, left), UNCHANGED sluids,
             \A w \in left : m.type = "LAUNCH" /\ w = [m EXCEPT !.dead = TRUE] /\ w # m
      PROVE  OnceInv'
  <2> DEFINE hit == Find(m.sluid)
             t == [i \in Ids |-> IF i \in hit THEN JobComplete(jobs[i], b) ELSE jobs[i]]
  <2>1. \A i \in Ids : (i \in hit /\ t[i] = JobComplete(jobs[i], b)) \/ t[i] = jobs[i]
    BY Zenon
  <2>2. Handle(t, FALSE) /\ net' = (net \ {m}) \cup left \cup UNION {Deallocate(i) : i \in hit}
        /\ UNCHANGED slurmd
    BY Zenon, <1>6 DEF AgentEnds
  <2> HIDE DEF t
  <2>3. \A i \in hit : \A w \in Deallocate(i) :
           w.type \in KillTypes /\ ~w.begun /\ w.time = clock /\ Spent(w.sluid)
    BY Zenon, <1>3, DeallocateSends
  <2>4. \A w \in left : m \in Launches(net) /\ m \notin net' /\ w = [m EXCEPT !.dead = TRUE]
    BY Zenon, <1>6, <2>2, <2>3 DEF Launches, KillTypes
  <2>5. Sends
    BY Zenon, <2>2, <2>3, <2>4 DEF Sends
  <2>6. \A i \in hit : i \in Ids /\ jobs[i] # NULL
    BY Zenon, <1>3
  <2>7. sluids <= sluids'
    BY Zenon, <1>0, <1>6
  <2> HIDE DEF hit
  <2> QED BY Zenon, <1>6, <2>1, <2>2, <2>5, <2>6, <2>7, TableOnce
<1>7. CASE LaunchRefused(m)
  <2>1. PICK left \in {{}} : AgentEnds(m, FALSE, left)
    BY Zenon, <1>7 DEF LaunchRefused
  <2>2. UNCHANGED sluids
    BY Zenon, <2>1 DEF AgentEnds
  <2> QED BY Zenon, <1>6, <2>1, <2>2
<1>8. CASE NoResponse(m)
  <2> DEFINE w == [m EXCEPT !.dead = TRUE]
  <2>1. m.type = "LAUNCH" /\ ~m.dead
    BY Zenon, <1>8 DEF NoResponse
  <2>2. w # m
    BY Zenon, <1>0, <2>1, RequestFields
  <2>3. PICK left \in {{}, {w}} : AgentEnds(m, TRUE, left)
    BY Zenon, <1>8 DEF NoResponse
  <2>4. UNCHANGED sluids
    BY Zenon, <2>3 DEF AgentEnds
  <2>5. \A x \in left : x = w
    BY Zenon, <2>3
  <2> QED BY Zenon, <1>6, <2>1, <2>2, <2>3, <2>4, <2>5
<1>9. CASE LoseMessage(m)
  <2>1. net' \subseteq net /\ UNCHANGED <<ctld, jobs, save, file, slurmd, clock, sluids, crashed>>
    BY Zenon, <1>9 DEF LoseMessage, ctldVars
  <2>2. Shrinks /\ Sends
    BY Zenon, <2>1 DEF Shrinks, Sends
  <2>3. ~crashed => Carried(jobs', net', slurmd')
    BY Zenon, <2>1, <2>2, HoldsCarried DEF OnceInv
  <2>4. FreshFrom(jobs') /\ sluids <= sluids' /\ clock <= clock'
    BY <1>0, <2>1 DEF FreshFrom
  <2> QED BY Zenon, <2>1, <2>2, <2>3, <2>4, OnceCtld
<1>10. CASE Registration(m)
  <2> DEFINE listed == {x[2] : x \in m.steps}
             gone   == Missing(m.node, listed)
             seen(r) == Running(r) /\ r.node = m.node /\ r.sluid \in listed
             t == [i \in Ids |-> CASE i \in gone -> JobComplete(jobs[i], case.requeue)
                                   [] seen(jobs[i]) -> [jobs[i] EXCEPT !.quiet = FALSE]
                                   [] OTHER -> jobs[i]]
  <2>1. \A i \in Ids : \/ t[i] = JobComplete(jobs[i], case.requeue) /\ jobs[i] # NULL
                       \/ t[i] = [jobs[i] EXCEPT !.quiet = FALSE] /\ jobs[i] # NULL
                       \/ t[i] = jobs[i]
    BY Zenon DEF Missing, Running
  <2>2. m.steps \subseteq Ids \X Nat /\ m.node \in Nodes /\ m.type = "REGISTRATION"
    BY Zenon, <1>0, <1>10, RequestFields DEF Registration
  <2>3. ASSUME ~crashed, NEW x \in m.steps, NEW w \in Answer(m.node, x[1], x[2])
        PROVE  w.type \in KillTypes /\ ~w.begun /\ w.time = clock /\ Spent(w.sluid)
    <3>1. x[1] \in Ids /\ x[2] \in Nat
      BY Zenon, <2>2
    <3>2. Spent(x[2])
      BY Zenon, <2>2, <2>3, <3>1 DEF OnceInv, RunInv, SpentInv, Seen
    <3> QED BY SMTT(30), <2>2, <3>1, <3>2, AnswerOwner
  <2>4. Handle(t, FALSE) /\ UNCHANGED <<slurmd, sluids>> /\ ctld = "up"
        /\ net' = (net \ {m}) \cup (UNION {Answer(m.node, x[1], x[2]) : x \in m.steps})
                              \cup UNION {Deallocate(i) : i \in gone}
    BY Zenon, <1>10 DEF Registration
  <2>5. gone \subseteq Ids
    BY Zenon DEF Missing
  <2> HIDE DEF t, gone, listed
  <2>6. ~crashed => Sends
    BY Zenon, <2>3, <2>4, <2>5, DeallocateSends DEF Sends
  <2>7. sluids <= sluids'
    BY Zenon, <1>0, <2>4
  <2> QED BY Zenon, <1>0, <2>1, <2>4, <2>6, <2>7, TableOnce
<1> QED BY Zenon, <1>5, <1>7, <1>8, <1>9, <1>10, EpilogOnce DEF CtldReceives

\* What slurmd keeps of the credentials: whatever is revoked stays revoked, and a
\* revocation has the time of a kill.
CredsKept(n, d) ==
  /\ \A c \in slurmd[n].creds : c.revoked # 0 =>
       \E e \in d.creds : e.sluid = c.sluid /\ e.revoked # 0
  /\ \A c \in d.creds : c.revoked # 0 =>
       \/ \E e \in slurmd[n].creds : e.sluid = c.sluid /\ e.revoked = c.revoked
       \/ \E k \in net : k.type \in KillTypes /\ k.sluid = c.sluid /\ k.time = c.revoked
  /\ \A c \in d.creds : Seen(c.sluid)
StepsKept(n, d) ==
  /\ \A p \in d.steps : \E q \in slurmd[n].steps : p.id = q.id /\ p.sluid = q.sluid
  /\ \A p, q \in d.steps : p.sluid = q.sluid => p = q

\* Then nothing can be launched again, ...
LEMMA SlurmdNoMore ==
  ASSUME slurmd \in [Nodes -> Slurmd], NEW n \in Nodes, NEW d, NEW S,
         CredsKept(n, d), StepsKept(n, d), Launches(S) \subseteq Launches(net)
  PROVE  NoMore(S, [slurmd EXCEPT ![n] = d])
<1> DEFINE D == [slurmd EXCEPT ![n] = d]
<1>1. D[n] = d /\ \A k \in Nodes \ {n} : D[k] = slurmd[k]
  BY Zenon
<1> HIDE DEF D
<1>2. \A k \in Nodes : \A p \in D[k].steps :
        \E q \in slurmd[k].steps : p.id = q.id /\ p.sluid = q.sluid
  BY Zenon, <1>1 DEF StepsKept
<1>3. \A k \in Nodes : \A c \in slurmd[k].creds : c.revoked # 0 =>
        \E e \in D[k].creds : e.sluid = c.sluid /\ e.revoked # 0
  BY SMTT(30), <1>1 DEF CredsKept
<1>4. NoMore(S, D)
  BY Zenon, <1>2, <1>3 DEF NoMore
<1> QED BY Zenon, <1>4 DEF D

\* ... and the invariant is kept if what slurmd answers is justified.
LEMMA SlurmdOnce ==
  ASSUME TypeInv, TypeInv', OnceInv, NEW n \in Nodes, NEW d, NEW S, SlurmdStep(n, d, S),
         Launches(S) \subseteq Launches(net),
         ~crashed =>
           /\ CredsKept(n, d) /\ StepsKept(n, d)
           /\ \A w \in S : \/ w \in net
                           \/ /\ w.type # "REGISTRATION" /\ Seen(w.sluid)
                              /\ Ending(S, [slurmd EXCEPT ![n] = d], w)
                              /\ w.type \in KillTypes =>
                                   \E k \in net : k.type \in KillTypes /\ k.sluid = w.sluid
                                                  /\ k.time = w.time
  PROVE  OnceInv'
<1> SUFFICES ASSUME ~crashed PROVE RunInv' /\ Stops'
  BY Zenon DEF SlurmdStep, OnceInv
<1>0. /\ slurmd' = [slurmd EXCEPT ![n] = d] /\ net' = S /\ slurmd \in [Nodes -> Slurmd]
      /\ UNCHANGED <<ctld, jobs, save, file, clock, sluids>> /\ net \subseteq Message
      /\ net' \subseteq Message /\ clock \in Nat /\ sluids \in Nat
  BY Zenon DEF SlurmdStep, ctldVars, TypeInv, CtldType
<1>1. slurmd'[n] = d /\ \A k \in Nodes \ {n} : slurmd'[k] = slurmd[k]
  BY Zenon, <1>0
<1>2. NoMore(net', slurmd')
  BY Zenon, <1>0, SlurmdNoMore
<1>3. RunInv /\ Stops
  BY Zenon DEF OnceInv
<1>4. \A m, w \in Launches(net') : m.sluid = w.sluid => m = w
  BY Zenon, <1>0, <1>3 DEF RunInv, LaunchOnce
<1>5. \A k \in Nodes : \A p, q \in slurmd'[k].steps : p.sluid = q.sluid => p = q
  BY SMTT(30), <1>1, <1>3 DEF RunInv, LaunchOnce, StepsKept
<1>6. Carried(jobs', net', slurmd')
  BY Zenon, <1>0, <1>2, <1>3, CarriedStays DEF RunInv
<1>7. ASSUME NEW s \in Nat, Seen(s)' PROVE Seen(s)
  <2>1. ASSUME NEW m \in net', m.type # "REGISTRATION", m.sluid = s
        PROVE  Seen(s)
    BY Zenon, <1>0, <2>1 DEF Seen
  <2>2. ASSUME NEW m \in net', m.type = "REGISTRATION", NEW x \in m.steps, x[2] = s
        PROVE  Seen(s)
    BY Zenon, <1>0, <2>2 DEF Seen
  <2>3. ASSUME NEW k \in Nodes, NEW p \in slurmd'[k].steps, p.sluid = s PROVE Seen(s)
    <3>1. PICK q \in slurmd[k].steps : p.sluid = q.sluid
      BY Zenon, <1>2 DEF NoMore
    <3> QED BY Zenon, <2>3, <3>1 DEF Seen
  <2>4. ASSUME NEW k \in Nodes, NEW c \in slurmd'[k].creds, c.sluid = s PROVE Seen(s)
    <3>1. CASE k = n
      BY Zenon, <1>1, <2>4, <3>1 DEF CredsKept
    <3>2. CASE k # n
      BY Zenon, <1>1, <2>4, <3>2 DEF Seen
    <3> QED BY Zenon, <3>1, <3>2
  <2>5. \/ \E m \in net' : m.type # "REGISTRATION" /\ m.sluid = s
        \/ \E m \in net' : m.type = "REGISTRATION" /\ \E x \in m.steps : x[2] = s
        \/ \E k \in Nodes : \E p \in slurmd'[k].steps : p.sluid = s
        \/ \E k \in Nodes : \E c \in slurmd'[k].creds : c.sluid = s
    BY <1>7, Zenon DEF Seen
  <2> QED BY Zenon, <2>1, <2>2, <2>3, <2>4, <2>5
<1>8. FreshFrom(jobs') /\ sluids <= sluids' /\ clock <= clock'
  BY SMTT(30), <1>0 DEF FreshFrom
<1>9. \A k \in net' : k.type \in KillTypes =>
        \/ k.time = clock
        \/ \E w \in net : w.type \in KillTypes /\ w.sluid = k.sluid /\ w.time = k.time
  BY Zenon, <1>0
<1>10. \A k \in Nodes : \A c \in slurmd'[k].creds : c.revoked # 0 =>
        \/ \E e \in slurmd[k].creds : e.sluid = c.sluid /\ e.revoked = c.revoked
        \/ \E w \in net : w.type \in KillTypes /\ w.sluid = c.sluid /\ w.time = c.revoked
  BY Zenon, <1>1 DEF CredsKept
<1>11. \A w \in net' : w \in net \/ Ending(net', slurmd', w)
  BY Zenon, <1>0
<1>12. RunInv'
  BY Zenon, <1>2, <1>3, <1>4, <1>5, <1>6, <1>7, <1>8, <1>9, <1>10, <1>11, RunStep
<1>13. \A i \in Ids : Fresh(jobs[i]) => Fresh(jobs'[i]) /\ jobs'[i].sluid = jobs[i].sluid
  BY Zenon, <1>0
<1>14. save'.at = save.at /\ save'.buffer = save.buffer /\ (save.jobs => save'.jobs)
  BY Zenon, <1>0
<1>15. Stops'
  BY Zenon, <1>0, <1>2, <1>3, <1>13, <1>14, StopStep
<1> QED BY Zenon, <1>12, <1>15

\* The credentials and slurmstepds after each change of slurmd.
LEMMA CredsAfter ==
  ASSUME NEW d \in Slurmd, NEW m \in Message
  PROVE  /\ Killed(d, m.id).creds = d.creds
         /\ \A p, q \in Killed(d, m.id).steps : \E a, b \in d.steps :
              /\ a.sluid = p.sluid /\ b.sluid = q.sluid /\ (a = b => p = q)
         /\ \A c \in Cleaned(d, m).creds : \E e \in d.creds :
              e.sluid = c.sluid /\ e.revoked = c.revoked
         /\ \A e \in d.creds : \E c \in Cleaned(d, m).creds :
              e.sluid = c.sluid /\ e.revoked = c.revoked
<1>1. Killed(d, m.id).creds = d.creds
  BY Zenon DEF Killed, Slurmd
<1>2. ASSUME NEW p \in Killed(d, m.id).steps, NEW q \in Killed(d, m.id).steps
      PROVE  \E a, b \in d.steps :
              /\ a.sluid = p.sluid /\ b.sluid = q.sluid /\ (a = b => p = q)
  <2> DEFINE f(x) == IF x.id = m.id THEN [x EXCEPT !.over = TRUE] ELSE x
  <2>1. Killed(d, m.id).steps = {f(x) : x \in d.steps}
    BY Zenon DEF Killed, Slurmd
  <2>2. PICK a \in d.steps : p = f(a)
    BY Zenon, <2>1
  <2>3. PICK b \in d.steps : q = f(b)
    BY Zenon, <2>1
  <2>4. a.sluid = p.sluid /\ b.sluid = q.sluid
    BY Zenon, <2>2, <2>3 DEF Slurmd, Stepd
  <2>5. a = b => p = q
    BY Zenon, <2>2, <2>3
  <2> QED BY Zenon, <2>4, <2>5
<1>3. CASE \E c \in CredOf(d, m.sluid) : c.expiring
  <2>1. Cleaned(d, m) = d
    BY Zenon, <1>3 DEF Cleaned
  <2> QED BY Zenon, <1>1, <1>2, <2>1
<1>4. CASE ~(\E c \in CredOf(d, m.sluid) : c.expiring)
  <2> DEFINE f(c) == IF c.sluid = m.sluid THEN [c EXCEPT !.expiring = TRUE] ELSE c
  <2>1. Cleaned(d, m).creds = {f(c) : c \in d.creds}
    BY Zenon, <1>4 DEF Cleaned, Slurmd
  <2>2. \A c \in d.creds : f(c).sluid = c.sluid /\ f(c).revoked = c.revoked
    BY Zenon DEF Slurmd, Cred
  <2> HIDE DEF f
  <2> QED BY Zenon, <1>1, <1>2, <2>1, <2>2
<1> QED BY Zenon, <1>3, <1>4

\* What cred_revoke() leaves.
LEMMA RevokedAfter ==
  ASSUME NEW d \in Slurmd, NEW m \in Message, m.type \in KillTypes, m.time > 0
  PROVE  /\ \A c \in d.creds : c.revoked # 0 =>
              \E e \in Revoked(d, m).creds : e.sluid = c.sluid /\ e.revoked # 0
         /\ \A c \in Revoked(d, m).creds :
              \/ \E e \in d.creds : e.sluid = c.sluid /\ e.revoked = c.revoked
              \/ c.sluid = m.sluid /\ c.revoked = m.time
         /\ \E c \in Revoked(d, m).creds : c.sluid = m.sluid /\ c.revoked # 0
<1> DEFINE old == CredOf(d, m.sluid)
           new == [sluid |-> m.sluid, revoked |-> m.time, expiring |-> FALSE]
           kept(c) == IF c.revoked # 0
                      THEN IF m.start # 0 /\ c.revoked < m.start THEN new ELSE c
                      ELSE [c EXCEPT !.revoked = m.time]
<1>0. m.time \in Nat /\ m.sluid \in Nat /\ m.time # 0
  BY RequestFields
<1>1. Revoked(d, m).creds = IF old = {} THEN d.creds \cup {new}
                            ELSE (d.creds \ old) \cup {kept(c) : c \in old}
  BY Zenon DEF Revoked, Slurmd
<1>2. new.sluid = m.sluid /\ new.revoked = m.time
  BY Zenon
<1>3. old \subseteq d.creds /\ \A c \in old : c.sluid = m.sluid
  BY Zenon DEF CredOf
<1>4. \A c \in old : /\ kept(c).sluid = m.sluid /\ kept(c).revoked # 0
                     /\ kept(c) = c \/ kept(c).revoked = m.time
  <2> SUFFICES ASSUME NEW c \in old
               PROVE  /\ kept(c).sluid = m.sluid /\ kept(c).revoked # 0
                      /\ kept(c) = c \/ kept(c).revoked = m.time
    BY Zenon
  <2>1. c \in Cred /\ c.sluid = m.sluid
    BY Zenon, <1>3 DEF Slurmd
  <2>2. LET e == [c EXCEPT !.revoked = m.time] IN e.sluid = c.sluid /\ e.revoked = m.time
    BY Zenon, <2>1 DEF Cred
  <2> HIDE DEF new, old
  <2> QED BY Zenon, <1>0, <1>2, <2>1, <2>2
<1> HIDE DEF old, new, kept
<1>5. CASE old = {}
  BY Zenon, <1>0, <1>1, <1>2, <1>5
<1>6. CASE old # {}
  <2>1. \A c \in d.creds : c.revoked # 0 =>
              \E e \in Revoked(d, m).creds : e.sluid = c.sluid /\ e.revoked # 0
    BY Zenon, <1>1, <1>3, <1>4, <1>6
  <2>2. \A c \in Revoked(d, m).creds :
              \/ \E e \in d.creds : e.sluid = c.sluid /\ e.revoked = c.revoked
              \/ c.sluid = m.sluid /\ c.revoked = m.time
    BY SMTT(30), <1>1, <1>3, <1>4, <1>6
  <2>3. \E c \in Revoked(d, m).creds : c.sluid = m.sluid /\ c.revoked # 0
    BY Zenon, <1>1, <1>4, <1>6
  <2> QED BY Zenon, <2>1, <2>2, <2>3
<1> QED BY Zenon, <1>5, <1>6

\* A launch request never finds a revocation that is older than itself.
LEMMA ReissuedSame ==
  ASSUME TypeInv, Times, NEW m \in net, m.type = "LAUNCH"
  PROVE  Reissued(slurmd[m.node], m.sluid, m.ctime) = slurmd[m.node]
<1>0. m \in Message /\ m.node \in Nodes /\ m.ctime \in Nat /\ slurmd[m.node] \in Slurmd
      /\ m \in Launches(net)
  BY Zenon, RequestFields DEF TypeInv, Launches
<1> DEFINE d == slurmd[m.node]
           x == {c \in CredOf(d, m.sluid) : c.revoked # 0 /\ m.ctime > c.revoked}
<1>1. x = {}
  <2> SUFFICES ASSUME NEW c \in d.creds, c.sluid = m.sluid, c.revoked # 0, m.ctime > c.revoked
               PROVE  FALSE
    BY Zenon DEF CredOf
  <2>1. m.ctime <= c.revoked /\ c.revoked \in Nat
    BY Zenon, <1>0 DEF Times, Slurmd, Cred
  <2> QED BY SMTT(30), <1>0, <2>1
<1>2. d.creds \ x = d.creds
  BY Zenon, <1>1
<1>3. Reissued(d, m.sluid, m.ctime) = [d EXCEPT !.creds = d.creds \ x]
  BY Zenon DEF Reissued
<1> HIDE DEF x
<1> QED BY Zenon, <1>0, <1>2, <1>3 DEF Slurmd

\* slurmd launches the job: it is there that the table still has the job on the
\* node, since slurmd knows of no revocation.
LEMMA LaunchedOnce ==
  ASSUME TypeInv, TypeInv', OnceInv, NEW m \in net, m.type = "LAUNCH",
         SlurmdStep(m.node, Launched(slurmd[m.node], m), net \ {m}),
         ~(\E c \in CredOf(slurmd[m.node], m.sluid) : c.revoked # 0)
  PROVE  OnceInv'
<1> DEFINE n == m.node
           c == slurmd[n]
           d == Launched(c, m)
           new == [id |-> m.id, sluid |-> m.sluid, over |-> FALSE]
<1> SUFFICES ASSUME ~crashed PROVE RunInv' /\ Stops'
  BY Zenon DEF SlurmdStep, OnceInv
<1>0. /\ m \in Message /\ n \in Nodes /\ c \in Slurmd /\ m \in Launches(net)
      /\ slurmd \in [Nodes -> Slurmd] /\ net \subseteq Message /\ m.sluid \in Nat
  BY Zenon, RequestFields DEF TypeInv, Launches
<1>1. RunInv /\ Stops
  BY Zenon DEF OnceInv
<1>2. /\ slurmd' = [slurmd EXCEPT ![n] = d] /\ net' = net \ {m}
      /\ UNCHANGED <<ctld, jobs, save, file, clock, sluids>>
  BY Zenon DEF SlurmdStep, ctldVars
<1>3. /\ d.steps = c.steps \cup {new} /\ c.creds \subseteq d.creds
      /\ \A e \in d.creds \ c.creds : e.revoked = 0 /\ e.sluid = m.sluid
  BY SMTT(30) DEF Launched
<1>4. new.id = m.id /\ new.sluid = m.sluid
  BY Zenon
<1>5. ~Barred(slurmd, m)
  BY Zenon DEF Barred, CredOf
<1> HIDE DEF d, new
<1>6. slurmd'[n] = d /\ \A k \in Nodes \ {n} : slurmd'[k] = slurmd[k]
  BY Zenon, <1>0, <1>2
<1>7. /\ \A k \in Nodes : \A p \in slurmd'[k].steps : p \in slurmd[k].steps \/ (k = n /\ p = new)
      /\ \A k \in Nodes : \A e \in slurmd'[k].creds :
           e \in slurmd[k].creds \/ (k = n /\ e.revoked = 0 /\ e.sluid = m.sluid)
      /\ \A k \in Nodes : slurmd[k].creds \subseteq slurmd'[k].creds
  BY Zenon, <1>3, <1>6
<1>8. /\ Launches(net') \subseteq Launches(net)
      /\ \A w \in Launches(net') : w \in net /\ w # m /\ w.sluid # m.sluid /\ w.node \in Nodes
  <2>1. \A w \in Launches(net') : w \in Launches(net) /\ w \in net /\ w # m
    BY Zenon, <1>2 DEF Launches
  <2>2. \A w \in net : w.node \in Nodes
    BY Zenon, <1>0, RequestFields
  <2> QED BY Zenon, <1>0, <1>1, <2>1, <2>2 DEF RunInv, LaunchOnce
<1>9. \A w : w.node \in Nodes /\ Barred(slurmd, w) => Barred(slurmd', w)
  BY Zenon, <1>7 DEF Barred
<1>10. \A k \in Nodes : \A p \in slurmd[k].steps : p.sluid # m.sluid
  BY Zenon, <1>0, <1>1 DEF RunInv, LaunchOnce
<1> HIDE DEF c
<1>11. LaunchOnce'
  <2>1. \A w, v \in Launches(net') : w.sluid = v.sluid => w = v
    BY Zenon, <1>1, <1>8 DEF RunInv, LaunchOnce
  <2>2. \A w \in Launches(net'), k \in Nodes : \A p \in slurmd'[k].steps : w.sluid # p.sluid
    BY ZenonT(30), <1>1, <1>4, <1>7, <1>8 DEF RunInv, LaunchOnce
  <2>3. ASSUME NEW k \in Nodes, NEW l \in Nodes, NEW p \in slurmd'[k].steps,
               NEW q \in slurmd'[l].steps, p.sluid = q.sluid
        PROVE  k = l /\ p = q
    <3>1. CASE p \in slurmd[k].steps /\ q \in slurmd[l].steps
      BY Zenon, <1>1, <2>3, <3>1 DEF RunInv, LaunchOnce
    <3> QED BY ZenonT(30), <1>4, <1>7, <1>10, <2>3, <3>1
  <2> QED BY Zenon, <2>1, <2>2, <2>3 DEF LaunchOnce
<1>12. \A t : Carried(t, net, slurmd) => Carried(t, net', slurmd')
  <2> SUFFICES ASSUME NEW t, Carried(t, net, slurmd) PROVE Carried(t, net', slurmd')
    BY Zenon
  <2>1. Holds(t[m.id], m.sluid, n)
    BY Zenon, <1>0, <1>5 DEF Carried
  <2>2. \A k \in Nodes : \A p \in slurmd'[k].steps : Holds(t[p.id], p.sluid, k)
    BY Zenon, <1>4, <1>7, <2>1 DEF Carried
  <2>3. \A w \in Launches(net') : Barred(slurmd', w) \/ Holds(t[w.id], w.sluid, w.node)
    BY Zenon, <1>8, <1>9 DEF Carried
  <2> QED BY Zenon, <2>2, <2>3 DEF Carried
<1>13. SpentInv'
  <2>1. Seen(m.sluid)
    BY Zenon, <1>0 DEF Seen
  <2>2. ASSUME NEW s \in Nat, Seen(s)' PROVE Seen(s)
    <3>1. \/ \E w \in net' : w.type # "REGISTRATION" /\ w.sluid = s
          \/ \E w \in net' : w.type = "REGISTRATION" /\ \E x \in w.steps : x[2] = s
          \/ \E k \in Nodes : \E p \in slurmd'[k].steps : p.sluid = s
          \/ \E k \in Nodes : \E e \in slurmd'[k].creds : e.sluid = s
      BY <2>2, Zenon DEF Seen
    <3>2. CASE \E w \in net' : w.type # "REGISTRATION" /\ w.sluid = s
      BY Zenon, <1>2, <3>2 DEF Seen
    <3>3. CASE \E w \in net' : w.type = "REGISTRATION" /\ \E x \in w.steps : x[2] = s
      BY Zenon, <1>2, <3>3 DEF Seen
    <3>4. CASE \E k \in Nodes : \E p \in slurmd'[k].steps : p.sluid = s
      BY Zenon, <1>4, <1>7, <2>1, <3>4 DEF Seen
    <3>5. CASE \E k \in Nodes : \E e \in slurmd'[k].creds : e.sluid = s
      BY Zenon, <1>7, <2>1, <3>5 DEF Seen
    <3> QED BY Zenon, <3>1, <3>2, <3>3, <3>4, <3>5
  <2>3. \A s \in Nat : Spent(s) => Spent(s)'
    BY Zenon, <1>2 DEF Spent, Fresh
  <2> QED BY Zenon, <1>1, <2>2, <2>3 DEF RunInv, SpentInv
<1>14. Times'
  <2>1. \A k \in Nodes : \A e \in slurmd'[k].creds : \A w \in Launches(net') :
          w.sluid = e.sluid /\ e.revoked # 0 => w.ctime <= e.revoked
    BY ZenonT(30), <1>1, <1>7, <1>8 DEF RunInv, Times
  <2> QED BY Zenon, <1>1, <1>2, <1>8, <2>1 DEF RunInv, Times
<1>15. Endings'
  <2> SUFFICES ASSUME NEW w \in net'
               PROVE  /\ w.type = "TERMINATE" /\ w.begun => Refuses(net', slurmd', w)
                      /\ w.type = "EPILOG" => Refuses(net', slurmd', w) /\ NoStep(slurmd', w)
    BY Zenon DEF Endings
  <2>0. w \in net /\ w.node \in Nodes
    BY Zenon, <1>0, <1>2, RequestFields
  <2>1. Refuses(net, slurmd, w) => Refuses(net', slurmd', w)
    BY Zenon, <1>8, <1>9 DEF Refuses
  <2>2. Refuses(net, slurmd, w) /\ NoStep(slurmd, w) => NoStep(slurmd', w)
    <3> SUFFICES ASSUME Refuses(net, slurmd, w), NoStep(slurmd, w), NEW p \in slurmd'[w.node].steps
                 PROVE  p.sluid # w.sluid
      BY Zenon DEF NoStep
    <3>1. CASE p \in slurmd[w.node].steps
      BY Zenon, <3>1 DEF NoStep
    <3>2. CASE w.node = n /\ p = new
      BY Zenon, <1>0, <1>4, <1>5, <3>2 DEF Refuses
    <3> QED BY Zenon, <1>7, <2>0, <3>1, <3>2
  <2> QED BY Zenon, <1>1, <2>0, <2>1, <2>2 DEF RunInv, Endings
<1>16. Stops'
  <2>1. \A t : Snapshot(t, jobs, net, slurmd) => Snapshot(t, jobs', net', slurmd')
    BY Zenon, <1>2, <1>12 DEF Snapshot
  <2> QED BY Zenon, <1>1, <1>2, <2>1 DEF Stops
<1>17. Carried(jobs', net', slurmd')
  BY Zenon, <1>1, <1>2, <1>12 DEF RunInv
<1> QED BY Zenon, <1>11, <1>13, <1>14, <1>15, <1>16, <1>17 DEF RunInv

\* slurmd as it is.
LEMMA KeptSame ==
  ASSUME RunInv, NEW n \in Nodes
  PROVE  CredsKept(n, slurmd[n]) /\ StepsKept(n, slurmd[n])
<1>1. CredsKept(n, slurmd[n])
  BY Zenon DEF CredsKept, Seen
<1>2. StepsKept(n, slurmd[n])
  BY Zenon DEF StepsKept, RunInv, LaunchOnce
<1> QED BY Zenon, <1>1, <1>2

\* What slurmd does with launch requests.
LEMMA LaunchActsOnce ==
  ASSUME TypeInv, TypeInv', OnceInv, NEW m \in net, LaunchBatchJob(m) \/ LaunchUnanswered(m)
  PROVE  OnceInv'
<1> DEFINE n == m.node
           c == slurmd[n]
           d == Reissued(c, m.sluid, m.ctime)
<1>1. m.type = "LAUNCH" /\ crashed' = crashed
  BY Zenon DEF LaunchBatchJob, LaunchUnanswered, SlurmdStep
<1> SUFFICES ASSUME ~crashed PROVE OnceInv'
  BY Zenon, <1>1 DEF OnceInv
<1>2. RunInv /\ n \in Nodes
  BY Zenon, RequestFields DEF OnceInv, TypeInv
<1>3. d = c
  BY Zenon, <1>1, <1>2, ReissuedSame DEF RunInv
<1>4. \/ SlurmdStep(n, c, (net \ {m}) \cup {Report("REQUEUE", m)})
      \/ SlurmdStep(n, d, (net \ {m}) \cup {Report("REQUEUE", m)})
      \/ SlurmdStep(n, d, net \ {m})
      \/ SlurmdStep(n, d, (net \ {m}) \cup {Report("REFUSED", m)})
      \/ /\ SlurmdStep(n, Launched(d, m), net \ {m})
         /\ ~(\E e \in CredOf(d, m.sluid) : e.revoked # 0)
  BY Zenon DEF LaunchBatchJob, LaunchUnanswered
<1>5. CASE SlurmdStep(n, c, net \ {m})
  <2>1. Launches(net \ {m}) \subseteq Launches(net)
    BY Zenon DEF Launches
  <2>2. CredsKept(n, c) /\ StepsKept(n, c)
    BY Zenon, <1>2, KeptSame
  <2> HIDE DEF n, c
  <2> QED BY Zenon, <1>2, <1>5, <2>1, <2>2, SlurmdOnce
<1>6. ASSUME NEW w \in {Report("REQUEUE", m), Report("REFUSED", m)},
             SlurmdStep(n, c, (net \ {m}) \cup {w})
      PROVE  OnceInv'
  <2> DEFINE S == (net \ {m}) \cup {w}
  <2>0. w.type \in {"REQUEUE", "REFUSED"} /\ w.sluid = m.sluid
    BY DEF Report
  <2>1. Launches(S) \subseteq Launches(net)
    BY Zenon, <2>0 DEF Launches
  <2>2. CredsKept(n, c) /\ StepsKept(n, c)
    BY Zenon, <1>2, KeptSame
  <2>3. Seen(w.sluid)
    BY Zenon, <1>1, <2>0 DEF Seen
  <2>4. Ending(S, [slurmd EXCEPT ![n] = c], w)
    BY Zenon, <2>0 DEF Ending
  <2>5. w.type \notin KillTypes /\ w.type # "REGISTRATION"
    BY Zenon, <2>0 DEF KillTypes
  <2>6. \A x \in S : x \in net \/ x = w
    BY Zenon
  <2>7. SlurmdStep(n, c, S)
    BY Zenon, <1>6
  <2> HIDE DEF n, c, S
  <2> QED BY Zenon, <1>2, <2>1, <2>2, <2>3, <2>4, <2>5, <2>6, <2>7, SlurmdOnce
<1>7. CASE SlurmdStep(n, Launched(c, m), net \ {m}) /\ ~(\E e \in CredOf(c, m.sluid) : e.revoked # 0)
  BY Zenon, <1>1, <1>7, LaunchedOnce
<1> HIDE DEF c, n, d
<1> QED BY Zenon, <1>3, <1>4, <1>5, <1>6, <1>7

\* The slurmstepds after a kill, and the credentials after cred_revoke() and
\* cred_begin_expiration().
LEMMA KillKept ==
  ASSUME TypeInv, RunInv, NEW m \in net, m.type \in KillTypes, NEW c, c = slurmd[m.node],
         NEW v, v = Revoked(c, m)
  PROVE  /\ CredsKept(m.node, v) /\ StepsKept(m.node, v)
         /\ CredsKept(m.node, Killed(v, m.id)) /\ StepsKept(m.node, Killed(v, m.id))
         /\ CredsKept(m.node, Killed(c, m.id)) /\ StepsKept(m.node, Killed(c, m.id))
         /\ CredsKept(m.node, Cleaned(c, m)) /\ StepsKept(m.node, Cleaned(c, m))
         /\ \E e \in Killed(v, m.id).creds : e.sluid = m.sluid /\ e.revoked # 0
         /\ v \in Slurmd
<1>0. /\ m \in Message /\ m.node \in Nodes /\ c \in Slurmd /\ m.sluid \in Nat /\ m.time \in Nat
      /\ m.time > 0
  BY Zenon, RequestFields DEF TypeInv, RunInv, Times
<1>1. v \in Slurmd /\ v.steps = c.steps /\ Cleaned(c, m).steps = c.steps
  BY SMTT(30), <1>0, SlurmdTypes, StepsAfter
<1>2. CredsKept(m.node, c) /\ StepsKept(m.node, c)
  BY Zenon, <1>0, KeptSame
<1>3. Seen(m.sluid)
  BY Zenon DEF Seen, KillTypes
<1>4. CredsKept(m.node, v)
  <2>1. /\ \A e \in c.creds : e.revoked # 0 =>
              \E x \in v.creds : x.sluid = e.sluid /\ x.revoked # 0
        /\ \A x \in v.creds :
              \/ \E e \in c.creds : e.sluid = x.sluid /\ e.revoked = x.revoked
              \/ x.sluid = m.sluid /\ x.revoked = m.time
    BY Zenon, <1>0, RevokedAfter
  <2>2. \A e \in c.creds : Seen(e.sluid)
    BY Zenon, <1>2 DEF CredsKept
  <2> QED BY Zenon, <1>3, <2>1, <2>2 DEF CredsKept
<1>5. \E e \in v.creds : e.sluid = m.sluid /\ e.revoked # 0
  BY Zenon, <1>0, RevokedAfter
<1>6. ASSUME NEW d \in Slurmd, d.steps = c.steps PROVE StepsKept(m.node, Killed(d, m.id))
  <2>1. \A p \in Killed(d, m.id).steps : \E q \in c.steps : p.id = q.id /\ p.sluid = q.sluid
    BY SMTT(30), <1>6, StepsAfter
  <2>2. ASSUME NEW p \in Killed(d, m.id).steps, NEW q \in Killed(d, m.id).steps, p.sluid = q.sluid
        PROVE  p = q
    <3>0. \E a, b \in d.steps : a.sluid = p.sluid /\ b.sluid = q.sluid /\ (a = b => p = q)
      <4>1. m \in Message /\ d \in Slurmd
        BY Zenon, <1>0
      <4>2. \A x, y \in Killed(d, m.id).steps : \E a, b \in d.steps :
              a.sluid = x.sluid /\ b.sluid = y.sluid /\ (a = b => x = y)
        BY Zenon, <4>1, CredsAfter
      <4> QED BY <4>2, Zenon
    <3>1. PICK a \in d.steps, b \in d.steps :
            a.sluid = p.sluid /\ b.sluid = q.sluid /\ (a = b => p = q)
      BY <3>0, Zenon
    <3>2. a = b
      BY SMTT(30), <1>2, <1>6, <2>2, <3>1 DEF StepsKept
    <3> QED BY Zenon, <3>1, <3>2
  <2> QED BY Zenon, <2>1, <2>2 DEF StepsKept
<1>7. Killed(v, m.id).creds = v.creds /\ Killed(c, m.id).creds = c.creds
  BY Zenon, <1>0, <1>1, CredsAfter
<1>8. CredsKept(m.node, Cleaned(c, m))
  <2>1. /\ \A x \in Cleaned(c, m).creds : \E e \in c.creds :
              e.sluid = x.sluid /\ e.revoked = x.revoked
        /\ \A e \in c.creds : \E x \in Cleaned(c, m).creds :
              e.sluid = x.sluid /\ e.revoked = x.revoked
    BY Zenon, <1>0, CredsAfter
  <2> QED BY SMTT(30), <1>2, <2>1 DEF CredsKept
<1>9. StepsKept(m.node, v) /\ StepsKept(m.node, Cleaned(c, m))
  BY Zenon, <1>1, <1>2 DEF StepsKept
<1>10. CredsKept(m.node, Killed(v, m.id)) /\ CredsKept(m.node, Killed(c, m.id))
  BY SMTT(30), <1>2, <1>4, <1>7 DEF CredsKept
<1> QED BY Zenon, <1>0, <1>1, <1>4, <1>5, <1>6, <1>7, <1>8, <1>9, <1>10

\* A message of slurmd that is justified by the kill it answers.
LEMMA KillStepOnce ==
  ASSUME TypeInv, TypeInv', OnceInv, NEW m \in net, m.type \in KillTypes, ~crashed,
         NEW d, NEW S, SlurmdStep(m.node, d, S), CredsKept(m.node, d), StepsKept(m.node, d),
         \A w \in S : \/ w \in net
                      \/ /\ w.type \in {"ABORT", "TERMINATE", "EPILOG"} /\ w.sluid = m.sluid
                         /\ w.type \in KillTypes => w.time = m.time
                         /\ Ending(S, [slurmd EXCEPT ![m.node] = d], w)
  PROVE  OnceInv'
<1>1. Launches(S) \subseteq Launches(net)
  BY Zenon DEF Launches
<1>2. m.node \in Nodes /\ Seen(m.sluid)
  BY Zenon, RequestFields DEF TypeInv, Seen, KillTypes
<1>3. \A w \in S : \/ w \in net
                   \/ /\ w.type # "REGISTRATION" /\ Seen(w.sluid)
                      /\ Ending(S, [slurmd EXCEPT ![m.node] = d], w)
                      /\ w.type \in KillTypes =>
                           \E k \in net : k.type \in KillTypes /\ k.sluid = w.sluid
                                          /\ k.time = w.time
  BY ZenonT(30), <1>2
<1> QED BY Zenon, <1>1, <1>2, <1>3, SlurmdOnce

\* What slurmd does with kills.
LEMMA KillActsOnce ==
  ASSUME TypeInv, TypeInv', SluidInv, OnceInv, NEW m \in net,
         AbortBegins(m) \/ TerminateBegins(m) \/ SlurmdKills(m)
  PROVE  OnceInv'
<1> DEFINE n == m.node
           c == slurmd[n]
           v == Revoked(c, m)
           d == [v EXCEPT !.steps = {p \in @ : p.id = m.id => p.over}]
           w == [m EXCEPT !.begun = TRUE]
           e == Report("EPILOG", m)
<1>1. m.type \in KillTypes /\ crashed' = crashed
  BY Zenon DEF AbortBegins, TerminateBegins, SlurmdKills, KillAgain, KillEnds, KillTypes, SlurmdStep
<1> SUFFICES ASSUME ~crashed PROVE OnceInv'
  BY Zenon, <1>1 DEF OnceInv
<1>2. /\ RunInv /\ n \in Nodes /\ m \in Message /\ m.id \in Ids /\ m.sluid \in Nat
      /\ slurmd \in [Nodes -> Slurmd] /\ net \subseteq Message /\ c \in Slurmd
  BY Zenon, <1>1, RequestFields DEF OnceInv, TypeInv
<1>3. /\ CredsKept(n, v) /\ StepsKept(n, v) /\ v \in Slurmd
      /\ CredsKept(n, Killed(v, m.id)) /\ StepsKept(n, Killed(v, m.id))
      /\ CredsKept(n, Killed(c, m.id)) /\ StepsKept(n, Killed(c, m.id))
      /\ CredsKept(n, Cleaned(c, m)) /\ StepsKept(n, Cleaned(c, m))
      /\ \E x \in Killed(v, m.id).creds : x.sluid = m.sluid /\ x.revoked # 0
  BY Zenon, <1>1, <1>2, KillKept
<1>4. w.type = m.type /\ w.sluid = m.sluid /\ w.time = m.time /\ w.node = n
  BY Zenon, <1>1, <1>2, RequestFields
<1>5. e.type = "EPILOG" /\ e.sluid = m.sluid /\ e.node = n
  BY Zenon DEF Report
<1>6. CredsKept(n, c) /\ StepsKept(n, c)
  BY Zenon, <1>2, KeptSame
<1>7. CASE AbortBegins(m)
  <2>0. m.type = "ABORT"
    BY Zenon, <1>7 DEF AbortBegins
  <2>1. d \in Slurmd /\ d.creds = v.creds /\ d.steps \subseteq v.steps
    <3>1. v \in Slurmd
      BY Zenon, <1>3
    <3> HIDE DEF v
    <3> QED BY Zenon, <3>1 DEF Slurmd
  <2> HIDE DEF d
  <2>2. CredsKept(n, d) /\ StepsKept(n, d)
    <3>1. CredsKept(n, v) /\ StepsKept(n, v)
      BY Zenon, <1>3
    <3> HIDE DEF v
    <3> QED BY Zenon, <2>1, <3>1 DEF CredsKept, StepsKept
  <2>3. CredsKept(n, Cleaned(d, m)) /\ StepsKept(n, Cleaned(d, m))
    <3>1. /\ \A x \in Cleaned(d, m).creds : \E y \in d.creds :
                y.sluid = x.sluid /\ y.revoked = x.revoked
          /\ \A y \in d.creds : \E x \in Cleaned(d, m).creds :
                y.sluid = x.sluid /\ y.revoked = x.revoked
          /\ Cleaned(d, m).steps = d.steps
      BY ZenonT(30), <1>2, <2>1, CredsAfter, StepsAfter
    <3> QED BY SMTT(30), <2>2, <3>1 DEF CredsKept, StepsKept
  <2>4. SlurmdStep(n, Cleaned(d, m), net \ {m}) \/ SlurmdStep(n, d, (net \ {m}) \cup {w})
    BY Zenon, <1>7 DEF AbortBegins, d
  <2>5. \A S, D : Ending(S, D, w)
    BY Zenon, <1>4, <2>0 DEF Ending
  <2> HIDE DEF c, v, w
  <2>6. CASE SlurmdStep(n, Cleaned(d, m), net \ {m})
    BY Zenon, <1>1, <2>3, <2>6, KillStepOnce
  <2>7. CASE SlurmdStep(n, d, (net \ {m}) \cup {w})
    <3> DEFINE S == (net \ {m}) \cup {w}
    <3>1. SlurmdStep(m.node, d, S) /\ CredsKept(m.node, d) /\ StepsKept(m.node, d)
      BY Zenon, <2>2, <2>7
    <3>2. \A x \in S : x \in net \/ x = w
      BY Zenon
    <3>3. w.type \in {"ABORT", "TERMINATE", "EPILOG"} /\ w.sluid = m.sluid /\ w.time = m.time
      BY Zenon, <1>4, <2>0
    <3>4. Ending(S, [slurmd EXCEPT ![m.node] = d], w)
      BY Zenon, <2>5
    <3> HIDE DEF S
    <3> QED BY Zenon, <1>1, <3>1, <3>2, <3>3, <3>4, KillStepOnce
  <2> QED BY Zenon, <2>4, <2>6, <2>7
<1>8. CASE TerminateBegins(m)
  <2>1. SlurmdStep(n, c, net \ {m}) \/ SlurmdStep(n, Killed(v, m.id), (net \ {m}) \cup {w})
    BY Zenon, <1>8 DEF TerminateBegins
  <2>2. CASE SlurmdStep(n, c, net \ {m})
    <3> HIDE DEF n, c
    <3> QED BY Zenon, <1>1, <1>6, <2>2, KillStepOnce DEF n
  <2>3. CASE SlurmdStep(n, Killed(v, m.id), (net \ {m}) \cup {w})
    <3> DEFINE S == (net \ {m}) \cup {w}
               k == Killed(v, m.id)
               D == [slurmd EXCEPT ![n] = k]
    <3>1. D[n] = k
      BY Zenon, <1>2
    <3> HIDE DEF D
    <3>2. Refuses(S, D, w)
      BY Zenon, <1>3, <1>4, <3>1 DEF Refuses, Barred
    <3>3. Ending(S, D, w)
      BY Zenon, <1>4, <3>2, <1>1 DEF Ending, KillTypes
    <3>4. Ending(S, [slurmd EXCEPT ![m.node] = k], w)
      BY Zenon, <3>3 DEF D
    <3>5. SlurmdStep(m.node, k, S) /\ CredsKept(m.node, k) /\ StepsKept(m.node, k)
      BY Zenon, <1>3, <2>3
    <3>6. \A x \in S : x \in net \/ x = w
      BY Zenon
    <3>7. w.type \in {"ABORT", "TERMINATE", "EPILOG"}
      BY Zenon, <1>1, <1>4 DEF KillTypes
    <3> HIDE DEF S, k, w
    <3> QED BY Zenon, <1>1, <1>4, <3>4, <3>5, <3>6, <3>7, KillStepOnce
  <2> QED BY Zenon, <2>1, <2>2, <2>3
<1>9. CASE KillAgain(m)
  <2>1. SlurmdStep(n, Killed(c, m.id), net)
    BY Zenon, <1>9 DEF KillAgain
  <2> HIDE DEF c
  <2> QED BY ZenonT(30), <1>1, <1>3, <2>1, KillStepOnce
<1>10. CASE KillEnds(m)
  <2>0. m.begun /\ StepsOf(n, m.id) = {}
    BY Zenon, <1>10 DEF KillEnds
  <2>1. \/ m.type = "ABORT" /\ SlurmdStep(n, Cleaned(c, m), (net \ {m}) \cup {})
        \/ m.type # "ABORT" /\ SlurmdStep(n, Cleaned(c, m), (net \ {m}) \cup {e})
    BY <1>10, Zenon DEF KillEnds
  <2>2. CASE m.type = "ABORT" /\ SlurmdStep(n, Cleaned(c, m), (net \ {m}) \cup {})
    <3>1. PICK S \in {net \ {m}} : SlurmdStep(n, Cleaned(c, m), S)
      <4>1. (net \ {m}) \cup {} = net \ {m}
        BY Zenon
      <4> QED BY Zenon, <2>2, <4>1
    <3> HIDE DEF c
    <3> QED BY ZenonT(30), <1>1, <1>3, <3>1, KillStepOnce
  <2>3. CASE m.type # "ABORT" /\ SlurmdStep(n, Cleaned(c, m), (net \ {m}) \cup {e})
    <3> DEFINE S == (net \ {m}) \cup {e}
               k == Cleaned(c, m)
               D == [slurmd EXCEPT ![n] = k]
    <3>0. m.type = "TERMINATE"
      BY Zenon, <1>1, <2>3 DEF KillTypes
    <3>1. Refuses(net, slurmd, m)
      BY Zenon, <1>2, <2>0, <3>0 DEF RunInv, Endings
    <3>2. NoStep(slurmd, m)
      <4> SUFFICES ASSUME NEW p \in slurmd[n].steps, p.sluid = m.sluid PROVE FALSE
        BY Zenon DEF NoStep
      <4>1. p.id \in Ids /\ Owner(p.id, m.sluid) /\ Owner(m.id, m.sluid)
        BY ZenonT(30), <1>1, <1>2 DEF Owner, Request, Slurmd, Stepd
      <4>2. p.id = m.id
        BY Zenon, <1>2, <4>1 DEF SluidInv
      <4> QED BY Zenon, <2>0, <4>2 DEF StepsOf
    <3>3. Launches(S) \subseteq Launches(net)
      BY Zenon, <1>5 DEF Launches
    <3>4. NoMore(S, D)
      BY Zenon, <1>2, <1>3, <3>3, SlurmdNoMore
    <3>5. S \in SUBSET Message
      <4>1. e \in Message
        BY Zenon, <1>1, <1>2, ReportTyped
      <4> QED BY Zenon, <1>2, <4>1
    <3>6. Refuses(S, D, m) /\ NoStep(D, m)
      BY Zenon, <1>2, <3>1, <3>2, <3>4, <3>5, EndingStays
    <3> HIDE DEF D, S
    <3>7. Ending(S, D, e)
      BY Zenon, <1>5, <3>6 DEF Ending, Refuses, NoStep
    <3>8. Ending(S, [slurmd EXCEPT ![m.node] = k], e)
      BY Zenon, <3>7 DEF D
    <3>9. SlurmdStep(m.node, k, S) /\ CredsKept(m.node, k) /\ StepsKept(m.node, k)
      BY Zenon, <1>3, <2>3 DEF S
    <3>10. \A x \in S : x \in net \/ x = e
      BY Zenon DEF S
    <3>11. e.type \notin KillTypes
      BY Zenon, <1>5 DEF KillTypes
    <3> HIDE DEF k, e
    <3> QED BY Zenon, <1>1, <1>5, <3>8, <3>9, <3>10, <3>11, KillStepOnce
  <2> QED BY Zenon, <2>1, <2>2, <2>3
<1> QED BY Zenon, <1>7, <1>8, <1>9, <1>10 DEF SlurmdKills

\* The steps about a node.
LEMMA NodeActsOnce ==
  ASSUME TypeInv, TypeInv', SluidInv, OnceInv, NEW n \in Nodes,
         \/ SlurmdRegisters(n)
         \/ \E p \in slurmd[n].steps :
              ScriptEnds(n, p) \/ \E again \in BOOLEAN : CompleteBatchScript(n, p, again)
  PROVE  OnceInv'
<1>0. /\ jobs \in Table /\ slurmd \in [Nodes -> Slurmd] /\ slurmd[n] \in Slurmd
      /\ sluids \in Nat /\ clock \in Nat
  BY Zenon DEF TypeInv, CtldType
<1>1. CASE SlurmdRegisters(n)
  <2> DEFINE m == [type |-> "REGISTRATION", node |-> n,
                   steps |-> {<<p.id, p.sluid>> : p \in slurmd[n].steps}]
  <2> SUFFICES ASSUME ~crashed PROVE RunInv' /\ Stops'
    BY ZenonT(30), <1>1 DEF SlurmdRegisters, OnceInv
  <2>1. net' = net \cup {m}
        /\ UNCHANGED <<ctld, jobs, save, file, slurmd, clock, sluids>>
    BY Zenon, <1>1 DEF SlurmdRegisters, ctldVars
  <2>2. m.type = "REGISTRATION" /\ \A x \in m.steps : \E p \in slurmd[n].steps : x[2] = p.sluid
    <3>1. \A x \in m.steps : \E p \in slurmd[n].steps : x = <<p.id, p.sluid>>
      BY Zenon
    <3>2. \A p : <<p.id, p.sluid>>[2] = p.sluid
      BY Zenon, PairFacts
    <3>3. m.type = "REGISTRATION"
      BY Zenon
    <3> HIDE DEF m
    <3> QED BY Zenon, <3>1, <3>2, <3>3
  <2> HIDE DEF m
  <2>3. RunInv /\ Stops
    BY Zenon DEF OnceInv
  <2>4. Launches(net') = Launches(net)
    BY Zenon, <2>1, <2>2 DEF Launches
  <2>5. NoMore(net', slurmd')
    BY Zenon, <2>1, <2>4 DEF NoMore
  <2>6. /\ \A a, w \in Launches(net') : a.sluid = w.sluid => a = w
        /\ \A k \in Nodes : \A p, q \in slurmd'[k].steps : p.sluid = q.sluid => p = q
        /\ Carried(jobs', net', slurmd')
    <3>1. LaunchOnce /\ Carried(jobs, net, slurmd)
      BY Zenon, <2>3 DEF RunInv
    <3>2. Carried(jobs', net', slurmd')
      BY Zenon, <2>1, <2>4, <3>1 DEF Carried
    <3>3. \A a, w \in Launches(net) : a.sluid = w.sluid => a = w
      BY Zenon, <3>1 DEF LaunchOnce
    <3>4. \A k \in Nodes : \A p, q \in slurmd[k].steps : p.sluid = q.sluid => p = q
      BY Zenon, <3>1 DEF LaunchOnce
    <3> QED BY Zenon, <2>1, <2>4, <3>2, <3>3, <3>4
  <2>7. \A s \in Nat : Seen(s)' => Seen(s)
    BY Zenon, <2>1, <2>2 DEF Seen
  <2>8. FreshFrom(jobs') /\ sluids <= sluids' /\ clock <= clock'
    BY SMTT(30), <1>0, <2>1 DEF FreshFrom
  <2>9. /\ \A k \in net' : k.type \in KillTypes => k \in net
        /\ \A w \in net' : w \in net \/ Ending(net', slurmd', w)
    BY Zenon, <2>1, <2>2 DEF KillTypes, Ending
  <2>10. RunInv'
    BY Zenon, <2>1, <2>3, <2>5, <2>6, <2>7, <2>8, <2>9, RunStep
  <2>11. save'.at = save.at /\ save'.buffer = save.buffer /\ (save.jobs => save'.jobs)
         /\ \A i \in Ids : Fresh(jobs[i]) => Fresh(jobs'[i]) /\ jobs'[i].sluid = jobs[i].sluid
    BY Zenon, <2>1
  <2>12. Stops'
    BY ZenonT(30), <2>1, <2>3, <2>5, <2>11, StopStep
  <2> QED BY Zenon, <2>10, <2>12
<1>2. ASSUME NEW p \in slurmd[n].steps, ScriptEnds(n, p) PROVE OnceInv'
  <2> DEFINE e == [p EXCEPT !.over = TRUE]
             d == [slurmd[n] EXCEPT !.steps = (@ \ {p}) \cup {e}]
  <2>1. SlurmdStep(n, d, net)
    BY Zenon, <1>2 DEF ScriptEnds
  <2>2. p \in Stepd
    BY Zenon, <1>0 DEF Slurmd
  <2>3. e.id = p.id /\ e.sluid = p.sluid
    BY Zenon, <2>2 DEF Stepd
  <2>4. d.steps = (slurmd[n].steps \ {p}) \cup {e} /\ d.creds = slurmd[n].creds
    BY Zenon, <1>0 DEF Slurmd
  <2> HIDE DEF d, e
  <2>5. ASSUME ~crashed PROVE CredsKept(n, d) /\ StepsKept(n, d)
    <3>1. CredsKept(n, slurmd[n]) /\ StepsKept(n, slurmd[n])
      BY Zenon, <2>5, KeptSame DEF OnceInv
    <3>2. CredsKept(n, d)
      BY Zenon, <2>4, <3>1 DEF CredsKept
    <3>3. StepsKept(n, d)
      BY SMTT(30), <2>3, <2>4, <3>1 DEF StepsKept
    <3> QED BY Zenon, <3>2, <3>3
  <2> QED BY Zenon, <2>1, <2>5, SlurmdOnce
<1> QED BY Zenon, <1>1, <1>2, CompleteOnce

\* The state save thread: what it saves is what is in memory.
LEMMA SavedOnce ==
  ASSUME TypeInv, RunInv
  PROVE  Snapshot(Saved(jobs), jobs, net, slurmd)
<1>0. jobs \in Table /\ slurmd \in [Nodes -> Slurmd] /\ net \subseteq Message /\ sluids \in Nat
  BY Zenon DEF TypeInv, CtldType
<1>1. ASSUME NEW i \in Ids
      PROVE  /\ \A s, n : Holds(jobs[i], s, n) => Holds(Saved(jobs)[i], s, n)
             /\ Fresh(Saved(jobs)[i]) => Fresh(jobs[i]) /\ Saved(jobs)[i].sluid = jobs[i].sluid
  <2>1. CASE jobs[i] = NULL
    BY Zenon, <2>1 DEF Saved
  <2>2. CASE jobs[i] # NULL
    <3> DEFINE r == [jobs[i] EXCEPT !.quiet = FALSE]
    <3>1. jobs[i] \in JobRecord
      BY Zenon, <1>0, <2>2 DEF Table, GoodRecord
    <3>2. r \in JobRecord /\ r.state = jobs[i].state /\ r.cg = jobs[i].cg
          /\ r.node = jobs[i].node /\ r.sluid = jobs[i].sluid
      BY Zenon, <3>1 DEF JobRecord
    <3>3. r # NULL
      BY Zenon, <3>2, NoRecordAssumption
    <3>4. Saved(jobs)[i] = r
      BY Zenon, <2>2 DEF Saved
    <3> HIDE DEF r
    <3> QED BY Zenon, <2>2, <3>2, <3>3, <3>4 DEF Holds, Fresh
  <2> QED BY Zenon, <2>1, <2>2
<1>2. \A n \in Nodes : \A p \in slurmd[n].steps : p.id \in Ids
  BY SMTT(30), <1>0 DEF Slurmd, Stepd
<1>3. \A m \in Launches(net) : m.id \in Ids
  BY Zenon, <1>0, RequestFields DEF Launches
<1>4. Carried(Saved(jobs), net, slurmd)
  BY Zenon, <1>1, <1>2, <1>3 DEF Carried, RunInv
<1> QED BY Zenon, <1>1, <1>4 DEF Snapshot

\* A step that touches only the file and the state save thread.
LEMMA SaveOnce ==
  ASSUME UNCHANGED <<jobs, slurmd, net, clock, sluids>>, RunInv
  PROVE  RunInv'
BY SMTT(30) DEF RunInv, LaunchOnce, Carried, SpentInv, Seen, Spent, Fresh, Holds, Times, Endings,
       Launches, Refuses, NoStep, Barred, KillTypes

\* The steps of the controller as a whole.
LEMMA GlobalActsOnce ==
  ASSUME TypeInv, TypeInv', SluidInv, OnceInv,
         Submit \/ Saver \/ Checkpoint \/ Shutdown \/ ShutdownEnds \/ Crash \/ Restart \/ Tick
  PROVE  OnceInv'
<1>0. /\ jobs \in Table /\ net \subseteq Message /\ slurmd \in [Nodes -> Slurmd] /\ SaveRec
      /\ clock \in Nat /\ sluids \in Nat /\ net' \subseteq Message
      /\ (file # NULL => file.jobs \in Table) /\ seq \in 1 .. MaxJobId
  BY Zenon DEF TypeInv, CtldType, SaveType, Image
<1>1. CASE Submit
  <2>1. PICK k \in 0 .. (MaxJobId - 2) :
          /\ jobs[Candidate(k)] = NULL
          /\ jobs' = [jobs EXCEPT ![Candidate(k)] = NewJob(sluids + 1)]
    BY Zenon, <1>1 DEF Submit
  <2> DEFINE j == Candidate(k)
  <2>2. j \in Ids
    BY Zenon, <1>0, CandidateTyped
  <2>3. /\ UNCHANGED <<ctld, file, slurmd, net, clock, crashed>> /\ sluids' = sluids + 1
        /\ save'.at = save.at /\ save'.buffer = save.buffer /\ save'.jobs = TRUE /\ ctld = "up"
    BY Zenon, <1>0, <1>1 DEF Submit, ScheduleJobSave, SaveRec
  <2> HIDE DEF j
  <2>4. jobs'[j] = NewJob(sluids + 1) /\ \A i \in Ids \ {j} : jobs'[i] = jobs[i]
    BY Zenon, <1>0, <2>1, <2>2 DEF Table, j
  <2>5. FreshFrom(jobs') /\ sluids <= sluids' /\ clock <= clock'
    <3>1. NewJob(sluids + 1).sluid = sluids + 1 /\ sluids + 1 > sluids
      BY SMTT(30), <1>0 DEF NewJob
    <3>2. FreshFrom(jobs')
      BY Zenon, <2>4, <3>1 DEF FreshFrom
    <3> QED BY SMTT(30), <1>0, <2>3, <3>2
  <2>6. Shrinks /\ Sends
    BY Zenon, <2>3 DEF Shrinks, Sends
  <2>7. \A i \in Ids : \A s, n : Holds(jobs[i], s, n) => Holds(jobs'[i], s, n)
    BY Zenon, <2>1, <2>4 DEF Holds, j
  <2>8. ~crashed => Carried(jobs', net', slurmd')
    BY Zenon, <2>6, <2>7, HoldsCarried DEF OnceInv
  <2> QED BY ZenonT(30), <2>3, <2>5, <2>6, <2>8, OnceCtld
<1>2. CASE Saver \/ Checkpoint \/ Shutdown
  <2>1. UNCHANGED <<jobs, slurmd, net, clock, sluids, crashed>>
    BY Zenon, <1>2 DEF Saver, SaveBegins, SaveMovesOld, SaveMovesNew, SaveStep, Checkpoint, Shutdown
  <2> SUFFICES ASSUME ~crashed PROVE RunInv' /\ Stops'
    BY Zenon, <2>1 DEF OnceInv
  <2>2. RunInv /\ Stops /\ RunInv'
    BY Zenon, <2>1, SaveOnce DEF OnceInv
  <2>3. \A t : Snapshot(t, jobs, net, slurmd) => Snapshot(t, jobs', net', slurmd')
    BY Zenon, <2>1
  <2>4. CASE SaveBegins
    <3>1. save'.at = "header" /\ ctld' = ctld /\ ctld \in {"up", "stopping"}
      BY Zenon, <2>4 DEF SaveBegins
    <3> QED BY Zenon, <2>2, <2>3, <3>1 DEF Stops
  <2>5. CASE SaveMovesOld
    <3>1. /\ save'.at = "moved" /\ ctld' = ctld /\ save'.buffer.jobs = Saved(jobs)
          /\ save.at = "header"
      BY Zenon, <1>0, <2>5 DEF SaveMovesOld, SaveStep, SaveRec
    <3>2. ctld # "stopped"
      BY Zenon, <2>2, <3>1 DEF Stops
    <3>3. Snapshot(Saved(jobs), jobs', net', slurmd')
      BY Zenon, <2>2, <2>3, SavedOnce
    <3> QED BY Zenon, <2>2, <3>1, <3>2, <3>3 DEF Stops
  <2>6. CASE SaveMovesNew
    <3>1. /\ save'.at = "idle" /\ ctld' = ctld /\ file' = save.buffer /\ save.at = "moved"
          /\ save'.jobs = save.jobs
      BY Zenon, <1>0, <2>6 DEF SaveMovesNew, SaveStep, SaveRec
    <3>2. ctld # "stopped"
      BY Zenon, <2>2, <3>1 DEF Stops
    <3> QED BY Zenon, <2>2, <2>3, <3>1, <3>2 DEF Stops
  <2>7. CASE Checkpoint
    BY ZenonT(30), <2>2, <2>7 DEF Checkpoint, Stops
  <2>8. CASE Shutdown
    <3>1. ctld' = "stopping" /\ save'.jobs
      BY Zenon, <1>0, <2>8 DEF Shutdown, ScheduleJobSave, SaveRec
    <3> QED BY Zenon, <2>2, <3>1 DEF Stops
  <2> QED BY Zenon, <1>2, <2>4, <2>5, <2>6, <2>7, <2>8 DEF Saver
<1>3. CASE Crash
  BY Zenon, <1>3 DEF Crash, Gone, OnceInv
<1>4. CASE ShutdownEnds
  <2>1. PICK lost \in SUBSET Losable : net' = Remains(lost)
    BY Zenon, <1>4 DEF ShutdownEnds, Gone
  <2>2. /\ UNCHANGED <<jobs, file, slurmd, clock, sluids, save>> /\ ctld' = "stopped"
        /\ crashed' = crashed /\ ctld = "stopping" /\ ~save.jobs /\ save.at = "idle"
    BY Zenon, <1>4 DEF ShutdownEnds, Gone, TypeInv, CtldType
  <2> SUFFICES ASSUME ~crashed PROVE RunInv' /\ Stops'
    BY Zenon, <2>2 DEF OnceInv
  <2>3. RunInv /\ Snapshot(file.jobs, jobs, net, slurmd)
    BY Zenon, <2>2 DEF OnceInv, Stops
  <2>4. \A m \in net' : \/ m \in net /\ m.type # "LAUNCH"
                        \/ \E w \in Launches(net) : m = [w EXCEPT !.dead = TRUE]
    BY Zenon, <2>1 DEF Remains, Launches
  <2>5. \A w \in Launches(net) : LET m == [w EXCEPT !.dead = TRUE]
                                 IN m.type = "LAUNCH" /\ m.dead = TRUE /\ (w.dead => m = w)
    BY Zenon, <1>0, RequestFields DEF Launches
  <2>6. ASSUME NEW m \in net'
        PROVE  m \in net \/ \E w \in Launches(net) : w \notin net' /\ m = [w EXCEPT !.dead = TRUE]
    <3>1. CASE m \in net
      BY Zenon, <3>1
    <3>2. ASSUME NEW w \in Launches(net), m = [w EXCEPT !.dead = TRUE], m \notin net
          PROVE  w \notin net'
      <4>1. ~w.dead /\ w.type = "LAUNCH"
        BY Zenon, <2>5, <3>2 DEF Launches
      <4>2. ASSUME NEW x \in net', x.type = "LAUNCH" PROVE x.dead = TRUE
        <5>1. PICK y \in Launches(net) : x = [y EXCEPT !.dead = TRUE]
          BY Zenon, <2>4, <4>2
        <5> QED BY Zenon, <2>5, <5>1
      <4> QED BY Zenon, <4>1, <4>2
    <3> QED BY Zenon, <2>4, <3>1, <3>2
  <2>7. Shrinks /\ Sends
    BY Zenon, <2>2, <2>6 DEF Shrinks, Sends
  <2>8. FreshFrom(jobs') /\ sluids <= sluids' /\ clock <= clock'
    BY SMTT(30), <1>0, <2>2 DEF FreshFrom
  <2>9. Carried(jobs', net', slurmd')
    BY Zenon, <2>2, <2>3, <2>7, HoldsCarried
  <2>10. RunInv' /\ NoMore(net', slurmd')
    BY Zenon, <2>3, <2>7, <2>8, <2>9, RunCtld
  <2>11. Carried(file.jobs, net', slurmd')
    BY Zenon, <1>0, <2>3, <2>10, CarriedStays DEF Snapshot
  <2>12. Snapshot(file.jobs, jobs', net', slurmd')
    BY Zenon, <2>2, <2>3, <2>11 DEF Snapshot
  <2> QED BY Zenon, <2>2, <2>10, <2>12 DEF Stops
<1>5. CASE Restart
  <2>1. /\ file # NULL /\ jobs' = file.jobs /\ net' = net \cup SyncNodesToCompJob(file.jobs)
        /\ UNCHANGED <<slurmd, clock, sluids, crashed>> /\ ctld' = "up"
        /\ ctld \in {"stopped", "dead"}
    BY Zenon, <1>5 DEF Restart
  <2> SUFFICES ASSUME ~crashed PROVE RunInv' /\ Stops'
    BY Zenon, <2>1 DEF OnceInv
  <2>2. RunInv /\ Snapshot(file.jobs, jobs, net, slurmd)
    BY Zenon, <2>1 DEF OnceInv, Stops
  <2>3. ASSUME NEW m \in SyncNodesToCompJob(file.jobs)
        PROVE  m.type \in KillTypes /\ ~m.begun /\ m.time = clock /\ Spent(m.sluid)'
    <3>1. PICK i \in Ids : /\ Completing(file.jobs[i])
                           /\ m = Kill("TERMINATE", i, file.jobs[i], file.jobs[i].node)
      BY Zenon, <2>3 DEF SyncNodesToCompJob
    <3>2. m.type \in KillTypes /\ ~m.begun /\ m.time = clock /\ m.sluid = file.jobs[i].sluid
      BY Zenon, <3>1 DEF Kill, KillTypes
    <3>3. m.sluid \in Nat /\ ImageOf(i, m.sluid)
      BY Zenon, <1>0, <2>1, <3>1, <3>2 DEF Completing, Table, GoodRecord, JobRecord, ImageOf, RecOf
    <3>4. m.sluid <= sluids /\ \A j \in Ids : ImageOf(j, m.sluid) => i = j
      BY Zenon, <3>3 DEF SluidInv, Owner
    <3>5. ASSUME NEW j \in Ids, Fresh(jobs'[j]), jobs'[j].sluid = m.sluid PROVE FALSE
      <4>1. i = j
        BY Zenon, <2>1, <3>4, <3>5 DEF Fresh, ImageOf, RecOf
      <4> QED BY Zenon, <2>1, <3>1, <3>5, <4>1 DEF Fresh, Completing
    <3> QED BY Zenon, <2>1, <3>2, <3>4, <3>5 DEF Spent, Fresh
  <2>4. Shrinks /\ Sends
    BY Zenon, <2>1, <2>3 DEF Shrinks, Sends
  <2>5. NoMore(net', slurmd')
    BY Zenon, <1>0, <2>4, SendsNoMore
  <2>6. Carried(jobs', net', slurmd')
    BY Zenon, <1>0, <2>1, <2>2, <2>5, CarriedStays DEF Snapshot
  <2>7. FreshFrom(jobs') /\ sluids <= sluids' /\ clock <= clock'
    BY SMTT(30), <1>0, <2>1, <2>2 DEF FreshFrom, Snapshot
  <2>8. RunInv'
    BY Zenon, <2>2, <2>4, <2>6, <2>7, RunCtld
  <2> QED BY Zenon, <2>1, <2>8 DEF Stops
<1>6. CASE Tick
  <2>1. UNCHANGED <<ctld, jobs, file, slurmd, net, save, sluids, crashed>> /\ clock' = clock + 1
    BY Zenon, <1>6 DEF Tick, ctldVars
  <2>2. Shrinks /\ Sends
    BY Zenon, <2>1 DEF Shrinks, Sends
  <2>3. ~crashed => Carried(jobs', net', slurmd')
    BY Zenon, <2>1, <2>2, HoldsCarried DEF OnceInv
  <2>4. FreshFrom(jobs') /\ sluids <= sluids' /\ clock <= clock'
    BY SMTT(30), <1>0, <2>1 DEF FreshFrom
  <2> QED BY Zenon, <2>1, <2>2, <2>3, <2>4, OnceCtld
<1> QED BY Zenon, <1>1, <1>2, <1>3, <1>4, <1>5, <1>6

\* The invariant is inductive.
LEMMA OnceInductive == TypeInv /\ SluidInv /\ OnceInv /\ [Next]_vars => OnceInv'
<1> SUFFICES ASSUME TypeInv, SluidInv, OnceInv, [Next]_vars PROVE OnceInv'
  BY Zenon
<1>0. TypeInv'
  BY Zenon, TypeInductive
<1>1. CASE UNCHANGED vars
  <2>1. UNCHANGED <<jobs, slurmd, net, clock, sluids, crashed, ctld, save, file>>
    BY Zenon, <1>1 DEF vars, ctldVars
  <2>2. ~crashed => RunInv'
    BY Zenon, <2>1, SaveOnce DEF OnceInv
  <2>3. Stops => Stops'
    BY Zenon, <2>1 DEF Stops, Snapshot
  <2> QED BY Zenon, <2>1, <2>2, <2>3 DEF OnceInv
<1> QED
  BY Zenon, <1>0, <1>1, GlobalActsOnce, StartOnce, JobActsOnce, NodeActsOnce, CtldActsOnce,
     LaunchActsOnce, KillActsOnce DEF Next, SlurmdReceives

\* A job never has two slurmstepds unless slurmctld has crashed: neither a requeue
\* nor a restart after an orderly shutdown starts a job whose script still runs,
\* whatever is lost, late or repeated.
THEOREM NeverRunTwice == Spec => []NeverTwice
<1>1. Init => OnceInv
  BY SMTT(30) DEF Init, OnceInv, RunInv, LaunchOnce, Carried, SpentInv, Seen, Times, Endings, Stops, Launches
<1> QED
  BY <1>1, InitTyped, InitSluid, TypeInductive, SluidInductive, OnceInductive, OnceMeans, PTL
     DEF Spec
=============================================================================
