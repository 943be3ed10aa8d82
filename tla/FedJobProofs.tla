------------------------------ MODULE FedJobProofs -------------------------------
(***************************************************************************)
(* What is proved of FedJob, for any number of clusters, any origin and    *)
(* any bounds on faults: the types, and that one cluster at a time runs    *)
(* the job as long as every start went through the origin's lock.  The     *)
(* argument is OwnInv: the clusters that run the job, hold the origin's    *)
(* grant or are reported to the origin as running it are one cluster, and  *)
(* the lock in the origin's fed_job_info, while there is one, is its.      *)
(***************************************************************************)
EXTENDS FedJob, TLAPS

-----------------------------------------------------------------------------
(* Queues of messages.                                                     *)

\* A queue has a submission, or a snapshot in which the job runs; it has at
\* most one submission.
Tells(m) == m.t = "SYNC" /\ m.job \in {"RUNNING", "COMPLETING"}
HasSubmit(q) == \E i \in DOMAIN q : q[i].t = "SUBMIT"
HasRun(q) == \E i \in DOMAIN q : Tells(q[i])
OneSubmit(q) == \A i, j \in DOMAIN q : q[i].t = "SUBMIT" /\ q[j].t = "SUBMIT" => i = j

\* Queue p follows q without a new submission or a new snapshot of a running job.
Quiet(q, p) ==
  /\ p \in Seq(Messages)
  /\ HasSubmit(p) => HasSubmit(q)
  /\ HasRun(p) => HasRun(q)
  /\ OneSubmit(q) => OneSubmit(p)

Nets == [Clusters -> [Clusters -> Seq(Messages)]]

\* The same of all queues.
Hushed(n, p) == p \in Nets /\ \A a, b \in Clusters : Quiet(n[a][b], p[a][b])

\* A message that is neither a submission nor a snapshot of a running job
Plain(m) == m \in Messages /\ m.t # "SUBMIT" /\ ~Tells(m)

\* The messages that are sent in one word
LEMMA PlainMsg ==
  /\ \A t \in {"SUBMIT_RESP", "COMPLETE", "START", "CANCEL", "CANCEL_NO_SIBS", "SEND_SYNC"} :
       Plain(Msg(t))
  /\ Msg("SUBMIT") \in Messages /\ Msg("SUBMIT").t = "SUBMIT" /\ ~Tells(Msg("SUBMIT"))
  BY Zenon DEF Plain, Msg, Messages, Tells

\* What Append does to a queue, whatever the message
LEMMA AppendAny ==
  ASSUME NEW q \in Seq(Messages), NEW m \in Messages
  PROVE  /\ Append(q, m) \in Seq(Messages)
         /\ HasSubmit(Append(q, m)) => HasSubmit(q) \/ m.t = "SUBMIT"
         /\ HasRun(Append(q, m)) => HasRun(q) \/ Tells(m)
         /\ OneSubmit(q) /\ (m.t = "SUBMIT" => ~HasSubmit(q)) => OneSubmit(Append(q, m))
  <1> DEFINE p == Append(q, m)
  <1>1. /\ p \in Seq(Messages)
        /\ DOMAIN q = 1 .. Len(q) /\ Len(q) \in Nat
        /\ DOMAIN p = 1 .. (Len(q) + 1)
        /\ \A i \in 1 .. Len(q) : p[i] = q[i]
        /\ p[Len(q) + 1] = m
    OBVIOUS
  <1>2. \A i \in DOMAIN p : i \in DOMAIN q \/ i = Len(q) + 1
    BY <1>1
  <1> HIDE DEF p
  <1>3. HasSubmit(p) => HasSubmit(q) \/ m.t = "SUBMIT"
    BY Zenon, <1>1, <1>2 DEF HasSubmit
  <1>4. HasRun(p) => HasRun(q) \/ Tells(m)
    BY Zenon, <1>1, <1>2 DEF HasRun
  <1>5. ASSUME OneSubmit(q), m.t = "SUBMIT" => ~HasSubmit(q)
        PROVE  OneSubmit(p)
    BY Zenon, <1>1, <1>2, <1>5 DEF OneSubmit, HasSubmit
  <1> QED
    BY Zenon, <1>1, <1>3, <1>4, <1>5 DEF p

\* Appending a plain message is quiet.
LEMMA AppendQuiet ==
  ASSUME NEW q \in Seq(Messages), NEW m, Plain(m)
  PROVE  Quiet(q, Append(q, m))
  BY Zenon, AppendAny DEF Quiet, Plain

\* So is putting one in front.
LEMMA PrependQuiet ==
  ASSUME NEW q \in Seq(Messages), NEW m, Plain(m)
  PROVE  Quiet(q, <<m>> \o q)
  <1> DEFINE p == <<m>> \o q
  <1>0. m \in Messages
    BY Zenon DEF Plain
  <1>1. /\ p \in Seq(Messages)
        /\ DOMAIN q = 1 .. Len(q) /\ Len(q) \in Nat
        /\ DOMAIN p = 1 .. (Len(q) + 1)
        /\ p[1] = m
        /\ \A i \in 2 .. (Len(q) + 1) : p[i] = q[i - 1]
    BY <1>0
  <1>2. \A i \in DOMAIN p : i = 1 \/ (i - 1 \in DOMAIN q /\ p[i] = q[i - 1])
    BY <1>1
  <1> HIDE DEF p
  <1>3. HasSubmit(p) => HasSubmit(q)
    BY Zenon, <1>1, <1>2 DEF HasSubmit, Plain
  <1>4. HasRun(p) => HasRun(q)
    BY Zenon, <1>1, <1>2 DEF HasRun, Plain
  <1>5. ASSUME OneSubmit(q), NEW i \in DOMAIN p, NEW j \in DOMAIN p,
               p[i].t = "SUBMIT", p[j].t = "SUBMIT"
        PROVE  i = j
    <2>1. /\ i - 1 \in DOMAIN q /\ j - 1 \in DOMAIN q
          /\ q[i - 1].t = "SUBMIT" /\ q[j - 1].t = "SUBMIT"
      BY Zenon, <1>1, <1>2, <1>5 DEF Plain
    <2>2. i - 1 = j - 1
      BY Zenon, <1>5, <2>1 DEF OneSubmit
    <2> QED
      BY <1>1, <2>2
  <1> QED
    BY Zenon, <1>1, <1>3, <1>4, <1>5 DEF p, Quiet, OneSubmit

\* Taking the first message is quiet; if it was the submission, none is left.
LEMMA TailQuiet ==
  ASSUME NEW q \in Seq(Messages), q # <<>>
  PROVE  /\ Quiet(q, Tail(q))
         /\ Head(q) \in Messages
         /\ OneSubmit(q) /\ Head(q).t = "SUBMIT" => ~HasSubmit(Tail(q))
         /\ Head(q).t = "SUBMIT" => HasSubmit(q)
         /\ Tells(Head(q)) => HasRun(q)
  <1> DEFINE p == Tail(q)
             h == Head(q)
  <1>1. /\ p \in Seq(Messages)
        /\ DOMAIN q = 1 .. Len(q) /\ Len(q) \in Nat /\ Len(q) >= 1
        /\ DOMAIN p = 1 .. (Len(q) - 1)
        /\ \A i \in 1 .. (Len(q) - 1) : p[i] = q[i + 1]
        /\ h = q[1] /\ h \in Messages
    OBVIOUS
  <1>2. \A i \in DOMAIN p : i + 1 \in DOMAIN q /\ p[i] = q[i + 1] /\ i + 1 # 1 /\ i \in Int
    BY <1>1
  <1>3. 1 \in DOMAIN q
    BY <1>1
  <1> HIDE DEF p, h
  <1>4. HasSubmit(p) => HasSubmit(q)
    BY Zenon, <1>2 DEF HasSubmit
  <1>5. HasRun(p) => HasRun(q)
    BY Zenon, <1>2 DEF HasRun
  <1>6. ASSUME OneSubmit(q), NEW i \in DOMAIN p, NEW j \in DOMAIN p,
               p[i].t = "SUBMIT", p[j].t = "SUBMIT"
        PROVE  i = j
    <2>1. i + 1 = j + 1
      BY Zenon, <1>2, <1>6 DEF OneSubmit
    <2> QED
      BY <1>2, <2>1
  <1>7. ASSUME OneSubmit(q), h.t = "SUBMIT", NEW i \in DOMAIN p, p[i].t = "SUBMIT"
        PROVE  FALSE
    BY Zenon, <1>1, <1>2, <1>3, <1>7 DEF OneSubmit
  <1>8. (h.t = "SUBMIT" => HasSubmit(q)) /\ (Tells(h) => HasRun(q))
    BY Zenon, <1>1, <1>3 DEF HasSubmit, HasRun
  <1> QED
    BY Zenon, <1>1, <1>4, <1>5, <1>6, <1>7, <1>8 DEF p, h, Quiet, OneSubmit, HasSubmit

\* Nothing left, nothing changed, and one quiet change after another
LEMMA QuietBasics ==
  ASSUME NEW q \in Seq(Messages)
  PROVE  /\ Quiet(q, <<>>) /\ Quiet(q, q)
         /\ \A p, r : Quiet(q, p) /\ Quiet(p, r) => Quiet(q, r)
  <1>1. <<>> \in Seq(Messages) /\ DOMAIN <<>> = {}
    OBVIOUS
  <1> QED
    BY Zenon, <1>1 DEF Quiet, HasSubmit, HasRun, OneSubmit

\* A queue in which the snapshots are outdated
OldQueue(q) ==
  IF q = <<>> THEN q ELSE [i \in DOMAIN q |->
       IF q[i].t = "SYNC" THEN [q[i] EXCEPT !.job = "OLD"] ELSE q[i]]

\* Outdating the snapshots is quiet, and leaves no snapshot of a running job.
LEMMA OldQuiet ==
  ASSUME NEW q \in Seq(Messages)
  PROVE  Quiet(q, OldQueue(q)) /\ ~HasRun(OldQueue(q))
  <1>1. CASE q = <<>>
    <2>1. OldQueue(q) = q /\ DOMAIN q = {}
      BY <1>1 DEF OldQueue
    <2> QED
      BY Zenon, <2>1, QuietBasics DEF HasRun
  <1>2. CASE q # <<>>
    <2> DEFINE old(m) == IF m.t = "SYNC" THEN [m EXCEPT !.job = "OLD"] ELSE m
               p == OldQueue(q)
    <2>1. \A m \in Messages : old(m) \in Messages /\ old(m).t = m.t /\ ~Tells(old(m))
      <3> SUFFICES ASSUME NEW m \in Messages
                   PROVE  old(m) \in Messages /\ old(m).t = m.t /\ ~Tells(old(m))
        BY Zenon
      <3>1. CASE m.t = "SYNC"
        <4>1. m \in [t : {"SYNC"}, job : JobStates \cup {"OLD"}, result : Results]
          BY Zenon, <3>1 DEF Messages
        <4>2. /\ [m EXCEPT !.job = "OLD"] \in Messages
              /\ [m EXCEPT !.job = "OLD"].t = "SYNC" /\ [m EXCEPT !.job = "OLD"].job = "OLD"
          BY Zenon, <4>1 DEF Messages
        <4> QED
          BY Zenon, <3>1, <4>2 DEF Tells
      <3>2. CASE m.t # "SYNC"
        BY Zenon, <3>2 DEF Tells
      <3> QED
        BY Zenon, <3>1, <3>2
    <2>2. p = [i \in DOMAIN q |-> old(q[i])]
      BY Zenon, <1>2 DEF OldQueue
    <2>3. \A i \in DOMAIN q : q[i] \in Messages
      OBVIOUS
    <2> HIDE DEF old, p
    <2>4. DOMAIN p = DOMAIN q /\ \A i \in DOMAIN q : p[i] = old(q[i]) /\ old(q[i]) \in Messages
      BY Zenon, <2>1, <2>2, <2>3
    <2>5. p \in Seq(Messages)
      <3>1. Len(q) \in Nat /\ DOMAIN q = 1 .. Len(q)
        OBVIOUS
      <3> DEFINE n == Len(q)
      <3>2. n \in Nat /\ p = [i \in 1 .. n |-> old(q[i])] /\ \A i \in 1 .. n : old(q[i]) \in Messages
        BY Zenon, <2>2, <2>4, <3>1
      <3> HIDE DEF n
      <3> QED
        BY <3>2
    <2>6. ~HasRun(p)
      BY Zenon, <2>1, <2>3, <2>4 DEF HasRun
    <2>7. \A i \in DOMAIN q : p[i].t = q[i].t
      BY Zenon, <2>1, <2>3, <2>4
    <2>8. (HasSubmit(p) => HasSubmit(q)) /\ (OneSubmit(q) => OneSubmit(p))
      BY Zenon, <2>4, <2>7 DEF HasSubmit, OneSubmit
    <2> QED
      BY Zenon, <2>5, <2>6, <2>8 DEF p, Quiet
  <1> QED
    BY Zenon, <1>1, <1>2

\* What a cluster sent before it connects again is outdated, quietly.
LEMMA OutdatedQuiet ==
  ASSUME NEW n \in Nets, NEW k \in Clusters
  PROVE  /\ Hushed(n, Outdated(n, k))
         /\ \A a, b \in Clusters : Outdated(n, k)[a][b] = IF b = k THEN OldQueue(n[a][k]) ELSE n[a][b]
  <1> DEFINE p == Outdated(n, k)
  <1>1. ASSUME NEW a \in Clusters, NEW b \in Clusters
        PROVE  /\ p[a] = [n[a] EXCEPT ![k] = OldQueue(n[a][k])]
               /\ p[a][b] = IF b = k THEN OldQueue(n[a][k]) ELSE n[a][b]
    BY Zenon DEF Outdated, Nets, OldQueue
  <1>2. p = [a \in Clusters |-> [n[a] EXCEPT ![k] = OldQueue(n[a][k])]]
    BY Zenon DEF Outdated, Nets, OldQueue
  <1> HIDE DEF p
  <1>3. ASSUME NEW a \in Clusters, NEW b \in Clusters
        PROVE  n[a][b] \in Seq(Messages) /\ Quiet(n[a][b], p[a][b])
    <2>1. n[a][b] \in Seq(Messages) /\ n[a][k] \in Seq(Messages)
      BY Zenon DEF Nets
    <2>2. Quiet(n[a][b], n[a][b]) /\ Quiet(n[a][k], OldQueue(n[a][k]))
      BY Zenon, <2>1, OldQuiet, QuietBasics
    <2>3. p[a][b] = IF b = k THEN OldQueue(n[a][k]) ELSE n[a][b]
      BY Zenon, <1>1
    <2> QED
      BY Zenon, <2>1, <2>2, <2>3
  <1>4. p \in Nets
    BY Zenon, <1>2, <1>3, <1>1 DEF Nets, Quiet
  <1> QED
    BY Zenon, <1>1, <1>3, <1>4 DEF Hushed, p

\* What Put does to the queues
LEMMA PutIs ==
  ASSUME NEW n \in Nets, NEW k \in Clusters, NEW S, NEW m \in Messages
  PROVE  /\ Put(n, k, S, m) \in Nets
         /\ \A a, b \in Clusters :
              Put(n, k, S, m)[a][b] = IF a = k /\ b \in S THEN Append(n[a][b], m) ELSE n[a][b]
  <1> DEFINE row == [l \in Clusters |-> IF l \in S THEN Append(n[k][l], m) ELSE n[k][l]]
  <1>1. Put(n, k, S, m) = [n EXCEPT ![k] = row]
    BY Zenon DEF Put
  <1>2. \A a, b \in Clusters : n[a][b] \in Seq(Messages)
    BY Zenon DEF Nets
  <1>3. row \in [Clusters -> Seq(Messages)]
    BY <1>2
  <1>4. \A b \in Clusters : row[b] = IF b \in S THEN Append(n[k][b], m) ELSE n[k][b]
    BY Zenon
  <1> HIDE DEF row
  <1> QED
    BY Zenon, <1>1, <1>3, <1>4 DEF Nets

\* Queueing a plain message to a set of clusters is quiet.
LEMMA PutQuiet ==
  ASSUME NEW n \in Nets, NEW k \in Clusters, NEW S, NEW m, Plain(m)
  PROVE  Hushed(n, Put(n, k, S, m))
  <1>1. m \in Messages
    BY Zenon DEF Plain
  <1>2. ASSUME NEW a \in Clusters, NEW b \in Clusters
        PROVE  Quiet(n[a][b], Put(n, k, S, m)[a][b])
    <2>1. n[a][b] \in Seq(Messages)
      BY Zenon DEF Nets
    <2> QED
      BY <1>1, <2>1, PutIs, AppendQuiet, QuietBasics
  <1> QED
    BY Zenon, <1>1, <1>2, PutIs DEF Hushed

\* So is telling siblings to revoke their copies.
LEMMA RevokeQuiet ==
  ASSUME NEW n \in Nets, NEW k \in Clusters, NEW S
  PROVE  Hushed(n, RevokeSiblingJobs(n, k, S))
  BY Zenon, PutQuiet, PlainMsg DEF RevokeSiblingJobs

\* So is the request for a snapshot when a connection opens.
LEMMA GreetedQuiet ==
  ASSUME NEW n \in Nets, NEW k \in Clusters, NEW l \in Clusters
  PROVE  Hushed(n, Greeted(n, k, l))
  <1> DEFINE m == Msg("SEND_SYNC")
             p == Greeted(n, k, l)
  <1>1. \A a, b \in Clusters : n[a][b] \in Seq(Messages) /\ Quiet(n[a][b], n[a][b])
    BY QuietBasics DEF Nets
  <1>2. Quiet(n[k][l], <<m>> \o n[k][l])
    BY Zenon, <1>1, PlainMsg, PrependQuiet
  <1>3. <<m>> \o n[k][l] \in Seq(Messages)
    BY Zenon, <1>2 DEF Quiet
  <1>4. p = n \/ p = [n EXCEPT ![k][l] = <<m>> \o n[k][l]]
    BY Zenon DEF Greeted
  <1> HIDE DEF m, p
  <1>5. CASE p = n
    BY Zenon, <1>1, <1>5 DEF Hushed, p
  <1>6. CASE p = [n EXCEPT ![k][l] = <<m>> \o n[k][l]]
    <2> DEFINE q == <<m>> \o n[k][l]
    <2> HIDE DEF q
    <2>1. /\ p \in Nets
          /\ \A a, b \in Clusters : p[a][b] = IF a = k /\ b = l THEN q ELSE n[a][b]
      BY Zenon, <1>3, <1>6 DEF Nets, q
    <2> QED
      BY Zenon, <1>1, <1>2, <2>1 DEF Hushed, p, q
  <1> QED
    BY Zenon, <1>4, <1>5, <1>6

\* A handler's first step: the head of a queue is taken.
LEMMA TakenQuiet ==
  ASSUME NEW n \in Nets, NEW s \in Clusters, NEW k \in Clusters, n[s][k] # <<>>
  PROVE  /\ Hushed(n, [n EXCEPT ![s][k] = Tail(@)])
         /\ [n EXCEPT ![s][k] = Tail(@)][s][k] = Tail(n[s][k])
  <1> DEFINE t == Tail(n[s][k])
             p == [n EXCEPT ![s][k] = Tail(@)]
  <1>1. \A a, b \in Clusters : n[a][b] \in Seq(Messages) /\ Quiet(n[a][b], n[a][b])
    BY QuietBasics DEF Nets
  <1>2. Quiet(n[s][k], t) /\ t \in Seq(Messages)
    BY Zenon, <1>1, TailQuiet DEF Quiet
  <1> HIDE DEF t
  <1>3. /\ p \in Nets
        /\ \A a, b \in Clusters : p[a][b] = IF a = s /\ b = k THEN t ELSE n[a][b]
    BY Zenon, <1>2 DEF Nets, t
  <1> HIDE DEF p
  <1>4. Hushed(n, p) /\ p[s][k] = t
    BY Zenon, <1>1, <1>2, <1>3 DEF Hushed
  <1> QED
    BY Zenon, <1>4 DEF p, t

\* Nothing changed, and one quiet change of the queues after another
LEMMA HushedBasics ==
  ASSUME NEW n \in Nets
  PROVE  /\ Hushed(n, n)
         /\ \A p, r : Hushed(n, p) /\ Hushed(p, r) => Hushed(n, r)
  <1>1. ASSUME NEW p, NEW r, Hushed(n, p), Hushed(p, r), NEW a \in Clusters, NEW b \in Clusters
        PROVE  Quiet(n[a][b], r[a][b])
    BY <1>1, QuietBasics DEF Hushed, Nets
  <1>2. \A a, b \in Clusters : n[a][b] \in Seq(Messages) /\ Quiet(n[a][b], n[a][b])
    BY QuietBasics DEF Nets
  <1> QED
    BY Zenon, <1>1, <1>2 DEF Hushed

\* A set of cluster ids has a first element (IdsOrdered, at the end).
FirstIds == \A S \in SUBSET Clusters : S # {} => Min(S) \in S

-----------------------------------------------------------------------------
(* The inductive invariant.                                                *)

\* The case is a record of the bounds.
CaseTypes == [down : SUBSET Clusters, stop : SUBSET Clusters,
              ends : SUBSET {"COMPLETE", "FAILED"},
              refusals : Nat, kills : Nat, dbd : BOOLEAN]
CaseInv == case \in CaseTypes

\* A cluster has fed_job_info for the job exactly while it has a record of it.
RecordInv == \A k \in Clusters : job[k] = "NONE" <=> infoLock[k] = NoInfo

\* The scheduler attempts only a pending copy of a sibling, asks no more than
\* the other siblings, and asks none once the origin has answered.
SchedInv ==
  \A k \in Clusters :
    /\ sched[k].pc = "idle" => sched[k] = Idle
    /\ sched[k].pc # "idle" => job[k] = "PENDING" /\ k # Origin
    /\ sched[k].pc = "granted" => sched[k].got = {}
    /\ sched[k].todo \cup sched[k].got \subseteq Others(Origin)

\* The origin sends each sibling one submission, and a copy runs or is
\* reported running only after it.
SubmitInv ==
  /\ \A a, b \in Clusters :
       /\ OneSubmit(net[a][b])
       /\ HasSubmit(net[a][b]) =>
            /\ a = Origin /\ b # Origin /\ submitted
            /\ job[b] = "NONE" /\ ~HasRun(net[b][Origin])
  /\ \A k \in Clusters : ~submitted => job[k] = "NONE" /\ ~HasRun(net[k][Origin])
  /\ \A k \in Clusters : job[k] = "PENDING" => ~HasRun(net[k][Origin])

\* Cluster k runs the job, has been granted the origin's lock, or is reported
\* to the origin as running the job.
Owner(k) == \/ job[k] \in {"RUNNING", "COMPLETING"}
            \/ sched[k].pc = "granted"
            \/ HasRun(net[k][Origin])

\* As long as nobody went around the origin there is one owner, and the
\* origin's lock, while it exists, is the owner's.
OwnInv == ~around => \A k \in Clusters : Owner(k) =>
             /\ infoLock[Origin] \in {k, NoInfo}
             /\ \A l \in Clusters : Owner(l) => k = l

FedInv == TypeOK /\ CaseInv /\ RecordInv /\ SchedInv /\ SubmitInv /\ OwnInv

\* Constants told apart
LEMMA Ids ==
  /\ Origin \in Clusters /\ Clusters \subseteq Int
  /\ NoLock \notin Clusters /\ NoInfo \notin Clusters /\ NoLock # NoInfo
  BY FedAssumption DEF Clusters, NoLock, NoInfo

\* A step without a new submission or report, and without a new pending copy
LEMMA SubmitKept ==
  ASSUME TypeOK, SubmitInv, Hushed(net, net'), submitted' = submitted,
         \A k \in Clusters : /\ job[k] = "NONE" => job'[k] = "NONE"
                             /\ job'[k] = "PENDING" => job[k] = "PENDING"
  PROVE  SubmitInv'
  <1>1. \A a, b \in Clusters :
          /\ HasSubmit(net'[a][b]) => HasSubmit(net[a][b])
          /\ HasRun(net'[a][b]) => HasRun(net[a][b])
          /\ OneSubmit(net[a][b]) => OneSubmit(net'[a][b])
    BY Zenon DEF Hushed, Quiet
  <1>2. Origin \in Clusters
    BY Zenon, Ids
  <1>3. ASSUME NEW a \in Clusters, NEW b \in Clusters
        PROVE  /\ OneSubmit(net'[a][b])
               /\ HasSubmit(net'[a][b]) =>
                    /\ a = Origin /\ b # Origin /\ submitted'
                    /\ job'[b] = "NONE" /\ ~HasRun(net'[b][Origin])
    BY Zenon, <1>1, <1>2 DEF SubmitInv
  <1>4. ASSUME NEW k \in Clusters
        PROVE  /\ ~submitted' => job'[k] = "NONE" /\ ~HasRun(net'[k][Origin])
               /\ job'[k] = "PENDING" => ~HasRun(net'[k][Origin])
    BY Zenon, <1>1, <1>2 DEF SubmitInv
  <1> QED
    BY Zenon, <1>3, <1>4 DEF SubmitInv

\* A step without a new owner that leaves the origin's lock alone, or removes
\* the origin's fed_job_info
LEMMA OwnKept ==
  ASSUME OwnInv, around => around',
         ~around' => \A k \in Clusters : Owner(k)' => Owner(k),
         ~around' => infoLock'[Origin] \in {infoLock[Origin], NoInfo}
  PROVE  OwnInv'
  <1> SUFFICES ASSUME ~around', NEW k \in Clusters, Owner(k)'
               PROVE  /\ infoLock'[Origin] \in {k, NoInfo}
                      /\ \A l \in Clusters : Owner(l)' => k = l
    BY Zenon DEF OwnInv
  <1>1. Owner(k) /\ \A l \in Clusters : Owner(l)' => Owner(l)
    BY Zenon
  <1>2. infoLock[Origin] \in {k, NoInfo} /\ \A l \in Clusters : Owner(l) => k = l
    BY <1>1, Zenon DEF OwnInv
  <1> QED
    BY Zenon, <1>1, <1>2

\* A step by which k takes the origin's lock, free or its own
LEMMA OwnTaken ==
  ASSUME OwnInv, around => around', NEW k \in Clusters,
         infoLock[Origin] \in {NoLock, k},
         infoLock'[Origin] = k,
         \A l \in Clusters : Owner(l)' => Owner(l) \/ l = k
  PROVE  OwnInv'
  <1> SUFFICES ASSUME ~around', NEW a \in Clusters, Owner(a)'
               PROVE  /\ infoLock'[Origin] \in {a, NoInfo}
                      /\ \A l \in Clusters : Owner(l)' => a = l
    BY Zenon DEF OwnInv
  <1>1. \A l \in Clusters : Owner(l) => infoLock[Origin] \in {l, NoInfo}
    BY Zenon DEF OwnInv
  <1>2. \A l \in Clusters : Owner(l) => l = k
    BY Zenon, <1>1, Ids
  <1>3. \A l \in Clusters : Owner(l)' => l = k
    BY Zenon, <1>2
  <1> QED
    BY Zenon, <1>3

\* A step after which there is no owner
LEMMA OwnNone ==
  ASSUME ~around' => \A l \in Clusters : ~Owner(l)'
  PROVE  OwnInv'
  BY Zenon DEF OwnInv

\* In a step that adds no report, an owner is one already or starts a copy or
\* an attempt.
LEMMA OwnerAfter ==
  ASSUME TypeOK, Hushed(net, net'), NEW k \in Clusters,
         job'[k] \in {"RUNNING", "COMPLETING"} => Owner(k),
         sched'[k].pc = "granted" => Owner(k)
  PROVE  Owner(k)' => Owner(k)
  <1>1. HasRun(net'[k][Origin]) => HasRun(net[k][Origin])
    BY Zenon, Ids DEF Hushed, Quiet
  <1> QED
    BY Zenon, <1>1 DEF Owner

\* The types of net and of case
LEMMA NetTyped == TypeOK => net \in Nets
  BY Zenon DEF TypeOK, Nets

\* What keeps the bounds of the case
CaseOK(c) == \E d \in Cases : /\ c.refusals \in 0 .. d.refusals /\ c.kills \in 0 .. d.kills
                              /\ c.stop \subseteq d.stop
                              /\ c.down = d.down /\ c.ends = d.ends /\ c.dbd = d.dbd

\* Taking one of a bounded number of faults keeps the bounds.
LEMMA CaseCounts ==
  ASSUME NEW c \in CaseTypes, CaseOK(c)
  PROVE  /\ \A k : /\ [c EXCEPT !.stop = @ \ {k}] \in CaseTypes
                   /\ CaseOK([c EXCEPT !.stop = @ \ {k}])
         /\ c.refusals > 0 => /\ [c EXCEPT !.refusals = @ - 1] \in CaseTypes
                              /\ CaseOK([c EXCEPT !.refusals = @ - 1])
         /\ c.kills > 0 => /\ [c EXCEPT !.kills = @ - 1] \in CaseTypes
                           /\ CaseOK([c EXCEPT !.kills = @ - 1])
  <1>1. PICK d \in Cases : /\ c.refusals \in 0 .. d.refusals /\ c.kills \in 0 .. d.kills
                           /\ c.stop \subseteq d.stop
                           /\ c.down = d.down /\ c.ends = d.ends /\ c.dbd = d.dbd
    BY Zenon DEF CaseOK
  <1>2. d.refusals \in Nat /\ d.kills \in Nat
    BY Zenon, FedAssumption
  <1>3. \A k : /\ [c EXCEPT !.stop = @ \ {k}] \in CaseTypes
               /\ CaseOK([c EXCEPT !.stop = @ \ {k}])
    BY Zenon, <1>1 DEF CaseOK, CaseTypes
  <1>4. ASSUME c.refusals > 0
        PROVE  /\ [c EXCEPT !.refusals = @ - 1] \in CaseTypes
               /\ CaseOK([c EXCEPT !.refusals = @ - 1])
    <2>1. c.refusals - 1 \in Nat /\ c.refusals - 1 \in 0 .. d.refusals
      BY <1>1, <1>2, <1>4
    <2> QED
      BY Zenon, <1>1, <2>1 DEF CaseOK, CaseTypes
  <1>5. ASSUME c.kills > 0
        PROVE  /\ [c EXCEPT !.kills = @ - 1] \in CaseTypes
               /\ CaseOK([c EXCEPT !.kills = @ - 1])
    <2>1. c.kills - 1 \in Nat /\ c.kills - 1 \in 0 .. d.kills
      BY SMTT(30), <1>1, <1>2, <1>5
    <2> QED
      BY Zenon, <1>1, <2>1 DEF CaseOK, CaseTypes
  <1> QED
    BY Zenon, <1>3, <1>4, <1>5

-----------------------------------------------------------------------------
(* Steps of the connections and of the clusters.                           *)

\* TypeOK in parts
JobTypes ==
  /\ job \in [Clusters -> JobStates]
  /\ result \in [Clusters -> Results]
  /\ recLock \in [Clusters -> Clusters \cup {NoLock}]
  /\ infoLock \in [Clusters -> Clusters \cup {NoLock, NoInfo}]
  /\ active \subseteq Clusters
ConnTypes == conn \in [Clusters -> [Clusters -> {"NULL", "CLOSED", "OPEN", "DEAD"}]]
LinkTypes ==
  /\ ConnTypes
  /\ fini \subseteq Clusters \X Clusters
  /\ recvd \subseteq Clusters \X Clusters
  /\ sent \subseteq Clusters \X Clusters
SchedTypes ==
  sched \in [Clusters -> [pc : {"idle", "locking", "release", "granted"},
                          todo : SUBSET Clusters, got : SUBSET Clusters]]
FlagTypes == up \subseteq Clusters /\ submitted \in BOOLEAN /\ around \in BOOLEAN

\* The parts make up the type invariant.
LEMMA TypeParts ==
  TypeOK <=> JobTypes /\ net \in Nets /\ LinkTypes /\ SchedTypes /\ FlagTypes /\ CaseOK(case)
  BY Zenon DEF TypeOK, JobTypes, Nets, LinkTypes, ConnTypes, SchedTypes, FlagTypes, CaseOK

\* A step that leaves the job records and the schedulers alone
LEMMA FrameKept ==
  ASSUME FedInv, UNCHANGED <<jobVars, sched, submitted, around>>, Hushed(net, net'),
         LinkTypes', up' \subseteq Clusters, CaseOK(case)', CaseInv'
  PROVE  FedInv'
  <1>1. TypeOK /\ RecordInv /\ SchedInv /\ SubmitInv /\ OwnInv
    BY Zenon DEF FedInv
  <1>2. /\ job' = job /\ infoLock' = infoLock /\ sched' = sched
        /\ submitted' = submitted /\ around' = around
    BY Zenon DEF jobVars
  <1>3. JobTypes' /\ SchedTypes' /\ FlagTypes' /\ net' \in Nets
    BY Zenon, <1>1, TypeParts DEF JobTypes, SchedTypes, FlagTypes, jobVars, Hushed
  <1>4. RecordInv' /\ SchedInv'
    BY Zenon, <1>1, <1>2 DEF RecordInv, SchedInv
  <1>5. SubmitInv'
    BY Zenon, <1>1, <1>2, SubmitKept
  <1>6. \A k \in Clusters : Owner(k)' => Owner(k)
    BY Zenon, <1>1, <1>2, OwnerAfter DEF Owner
  <1>7. OwnInv'
    BY SMTT(30), <1>1, <1>2, <1>6, OwnKept, Ids
  <1>8. TypeOK'
    BY Zenon, <1>3 DEF TypeOK, JobTypes, Nets, LinkTypes, ConnTypes, SchedTypes, FlagTypes, CaseOK
  <1> QED
    BY Zenon, <1>4, <1>5, <1>7, <1>8 DEF FedInv

\* A connection that is opened or found dead is typed.
LEMMA SendRecvTyped ==
  ASSUME ConnTypes, NEW k \in Clusters, NEW l \in Clusters
  PROVE  SendRecv(k, l) \in [Clusters -> [Clusters -> {"NULL", "CLOSED", "OPEN", "DEAD"}]]
  BY Zenon DEF ConnTypes, SendRecv

\* The initial states
LEMMA FedInit == Init => FedInv
  <1> SUFFICES ASSUME Init
               PROVE  FedInv
    BY Zenon
  <1>1. /\ job = [k \in Clusters |-> "NONE"] /\ infoLock = [k \in Clusters |-> NoInfo]
        /\ net = [k \in Clusters |-> [l \in Clusters |-> <<>>]]
        /\ sched = [k \in Clusters |-> Idle] /\ ~submitted /\ ~around
        /\ case \in Cases
    BY Zenon DEF Init
  <1>2. JobTypes
    BY Zenon, Ids DEF Init, JobTypes, JobStates, Results
  <1>3. net \in Nets
    BY <1>1 DEF Nets
  <1>4. LinkTypes
    <2>1. conn \in [Clusters -> [Clusters -> {"NULL", "CLOSED", "OPEN", "DEAD"}]]
      BY Zenon DEF Init
    <2> QED
      BY Zenon, <2>1 DEF LinkTypes, ConnTypes, Init
  <1>5. SchedTypes
    BY Zenon, <1>1 DEF SchedTypes, Idle
  <1>6. FlagTypes
    BY Zenon DEF Init, FlagTypes
  <1>7. CaseInv
    BY Zenon, <1>1, FedAssumption DEF CaseInv, CaseTypes, Clusters
  <1>8. CaseOK(case)
    <2>1. case.refusals \in Nat /\ case.kills \in Nat
      BY Zenon, <1>7 DEF CaseInv, CaseTypes
    <2>2. case.refusals \in 0 .. case.refusals /\ case.kills \in 0 .. case.kills
      BY <2>1
    <2> QED
      BY Zenon, <1>1, <2>2 DEF CaseOK
  <1>9. \A a, b \in Clusters : ~HasSubmit(net[a][b]) /\ ~HasRun(net[a][b]) /\ OneSubmit(net[a][b])
    BY <1>1 DEF HasSubmit, HasRun, OneSubmit
  <1>10. RecordInv /\ SchedInv
    BY Zenon, <1>1 DEF RecordInv, SchedInv, Idle
  <1>11. SubmitInv
    BY Zenon, <1>1, <1>9, Ids DEF SubmitInv
  <1>12. \A k \in Clusters : ~Owner(k)
    BY Zenon, <1>1, <1>9, Ids DEF Owner, Idle
  <1>13. OwnInv
    BY Zenon, <1>12 DEF OwnInv
  <1> QED
    BY Zenon, <1>2, <1>3, <1>4, <1>5, <1>6, <1>7, <1>8, <1>10, <1>11, <1>13, TypeParts DEF FedInv

\* The parts of FedInv and what it says of the types
LEMMA FedParts ==
  ASSUME FedInv
  PROVE  /\ TypeOK /\ CaseInv /\ RecordInv /\ SchedInv /\ SubmitInv /\ OwnInv
         /\ JobTypes /\ net \in Nets /\ LinkTypes /\ SchedTypes /\ FlagTypes /\ CaseOK(case)
  BY Zenon, TypeParts DEF FedInv

\* A cluster connects to another.
LEMMA OpenSendInv ==
  ASSUME FedInv, NEW k \in Clusters, NEW l \in Clusters, OpenSend(k, l)
  PROVE  FedInv'
  <1>1. Hushed(net, net')
    BY Zenon, FedParts, GreetedQuiet DEF OpenSend
  <1>2. LinkTypes'
    BY Zenon, FedParts, SendRecvTyped DEF OpenSend, LinkTypes, ConnTypes
  <1> QED
    BY Zenon, <1>1, <1>2, FedParts, FrameKept DEF OpenSend, ctlVars, CaseInv, CaseOK, FlagTypes

\* The agent finds a connection dead.
LEMMA AgentFailsInv ==
  ASSUME FedInv, NEW k \in Clusters, NEW l \in Clusters, AgentFails(k, l)
  PROVE  FedInv'
  <1>1. Hushed(net, net')
    BY Zenon, FedParts, HushedBasics DEF AgentFails
  <1>2. LinkTypes'
    BY Zenon, FedParts, SendRecvTyped DEF AgentFails, LinkTypes, ConnTypes
  <1> QED
    BY Zenon, <1>1, <1>2, FedParts, FrameKept DEF AgentFails, ctlVars, CaseInv, CaseOK, FlagTypes

\* The connection to this cluster goes away.
LEMMA CallbackFiniInv ==
  ASSUME FedInv, NEW k \in Clusters, NEW l \in Clusters, CallbackFini(k, l)
  PROVE  FedInv'
  <1>1. Hushed(net, net')
    BY Zenon, FedParts, HushedBasics DEF CallbackFini
  <1>2. LinkTypes'
    BY Zenon, FedParts DEF CallbackFini, LinkTypes, ConnTypes
  <1> QED
    BY Zenon, <1>1, <1>2, FedParts, FrameKept DEF CallbackFini, ctlVars, CaseInv, CaseOK, FlagTypes

\* A cluster stops.
LEMMA StopInv ==
  ASSUME FedInv, NEW k \in Clusters, Stop(k)
  PROVE  FedInv'
  <1>1. PICK taken \in SUBSET Others(k) :
          net' = [j \in Clusters |-> [l \in Clusters |->
                    IF j = k \/ (l = k /\ j \in taken) THEN <<>> ELSE net[j][l]]]
    BY Zenon DEF Stop
  <1>2. Hushed(net, net')
    <2>1. \A a, b \in Clusters : net[a][b] \in Seq(Messages)
      BY Zenon, FedParts DEF Nets
    <2>2. \A a, b \in Clusters : net'[a][b] = net[a][b] \/ net'[a][b] = <<>>
      BY Zenon, <1>1
    <2>3. \A a, b \in Clusters : Quiet(net[a][b], net'[a][b])
      BY <2>1, <2>2, QuietBasics
    <2>4. net' \in Nets
      BY <1>1, <2>1 DEF Nets
    <2> QED
      BY Zenon, <2>3, <2>4 DEF Hushed
  <1>3. LinkTypes'
    <2>1. ConnTypes'
      BY Zenon, FedParts DEF Stop, LinkTypes, ConnTypes
    <2>2. fini' \subseteq Clusters \X Clusters
      BY FedParts DEF Stop, LinkTypes, FlagTypes
    <2> QED
      BY Zenon, <2>1, <2>2, FedParts DEF Stop, LinkTypes
  <1>4. CaseInv' /\ CaseOK(case)'
    <2>1. case' \in CaseTypes /\ CaseOK(case')
      BY Zenon, FedParts, CaseCounts DEF Stop, CaseInv
    <2> QED
      BY Zenon, <2>1 DEF CaseInv, CaseOK
  <1> QED
    BY Zenon, <1>2, <1>3, <1>4, FedParts, FrameKept DEF Stop, FlagTypes

\* A cluster starts again.
LEMMA BootInv ==
  ASSUME FedInv, NEW k \in Clusters, Boot(k)
  PROVE  FedInv'
  <1> DEFINE m == Msg("SEND_SYNC")
             row == [l \in Clusters |-> IF l \in up THEN <<m>> \o net[k][l] ELSE net[k][l]]
  <1>1. net' = [net EXCEPT ![k] = row]
    BY Zenon DEF Boot
  <1>2. Hushed(net, net')
    <2>1. \A a, b \in Clusters : net[a][b] \in Seq(Messages) /\ Quiet(net[a][b], net[a][b])
      BY FedParts, QuietBasics DEF Nets
    <2>2. Plain(m)
      BY Zenon, PlainMsg
    <2> HIDE DEF m
    <2>3. \A l \in Clusters : Quiet(net[k][l], row[l])
      BY Zenon, <2>1, <2>2, PrependQuiet
    <2>4. row \in [Clusters -> Seq(Messages)]
      BY Zenon, <2>3 DEF Quiet
    <2> HIDE DEF row
    <2>5. net' \in Nets /\ \A a, b \in Clusters : net'[a][b] = IF a = k THEN row[b] ELSE net[a][b]
      BY Zenon, <1>1, <2>4, FedParts DEF Nets
    <2> QED
      BY Zenon, <2>1, <2>3, <2>5 DEF Hushed
  <1>3. LinkTypes'
    BY Zenon, FedParts DEF Boot, LinkTypes, ConnTypes
  <1> QED
    BY Zenon, <1>2, <1>3, FedParts, FrameKept DEF Boot, CaseInv, CaseOK, FlagTypes

-----------------------------------------------------------------------------
(* Steps of an attempt to schedule the job.                                *)

SchedRecs == [pc : {"idle", "locking", "release", "granted"},
              todo : SUBSET Clusters, got : SUBSET Clusters]
Locks == [Clusters -> Clusters \cup {NoLock, NoInfo}]

\* What an attempt of cluster k to schedule may become
GoodAttempt(k, x) ==
  /\ x \in SchedRecs
  /\ x.pc = "idle" => x = Idle
  /\ x.pc # "idle" => k # Origin
  /\ x.pc = "granted" => x.got = {}
  /\ x.todo \cup x.got \subseteq Others(Origin)

\* One attempt changes.
LEMMA SchedStep ==
  ASSUME SchedInv, SchedTypes, NEW k \in Clusters, NEW x,
         sched' = [sched EXCEPT ![k] = x],
         GoodAttempt(k, x), x.pc = "idle" \/ job'[k] = "PENDING",
         \A l \in Clusters \ {k} : job'[l] = job[l]
  PROVE  SchedTypes' /\ SchedInv'
  <1>1. \A l \in Clusters : sched'[l] = IF l = k THEN x ELSE sched[l]
    BY Zenon DEF SchedTypes
  <1>2. SchedTypes'
    BY Zenon DEF SchedTypes, GoodAttempt, SchedRecs
  <1>3. ASSUME NEW l \in Clusters
        PROVE  /\ sched'[l].pc = "idle" => sched'[l] = Idle
               /\ sched'[l].pc # "idle" => job'[l] = "PENDING" /\ l # Origin
               /\ sched'[l].pc = "granted" => sched'[l].got = {}
               /\ sched'[l].todo \cup sched'[l].got \subseteq Others(Origin)
    BY SMTT(30), <1>1 DEF SchedInv, GoodAttempt
  <1>4. SchedInv'
    BY Zenon, <1>3 DEF SchedInv, Idle, Others
  <1> QED
    BY Zenon, <1>2, <1>4

\* fed_mgr_job_lock_set and fed_mgr_job_lock_unset change one lock, and only
\* where there is one.
LEMMA LockIs ==
  ASSUME JobTypes, NEW s \in Clusters, NEW k \in Clusters
  PROVE  /\ LockSet(s, k) \in Locks /\ LockUnset(s, k) \in Locks
         /\ \A l \in Clusters : /\ LockSet(s, k)[l] = NoInfo <=> infoLock[l] = NoInfo
                                /\ LockUnset(s, k)[l] = NoInfo <=> infoLock[l] = NoInfo
         /\ \A l \in Clusters \ {s} : /\ LockSet(s, k)[l] = infoLock[l]
                                      /\ LockUnset(s, k)[l] = infoLock[l]
         /\ MayLock(s, k) => LockSet(s, k)[s] = k /\ LockUnset(s, k)[s] = NoLock
  BY Zenon, Ids DEF JobTypes, Locks, LockSet, LockUnset, MayLock

\* All of the invariant but the one owner
FedRest == TypeOK /\ CaseInv /\ RecordInv /\ SchedInv /\ SubmitInv

\* A step of cluster k inside an attempt
LEMMA AttemptKept ==
  ASSUME FedInv, NEW k \in Clusters, NEW x,
         UNCHANGED <<job, result, active, fini, recvd, sent, ctlVars>>,
         Hushed(net, net'), ConnTypes',
         recLock' \in [Clusters -> Clusters \cup {NoLock}],
         infoLock' \in Locks,
         \A l \in Clusters : infoLock'[l] = NoInfo <=> infoLock[l] = NoInfo,
         sched' = [sched EXCEPT ![k] = x],
         GoodAttempt(k, x), x.pc = "idle" \/ job[k] = "PENDING"
  PROVE  /\ FedRest'
         /\ \A l \in Clusters : Owner(l)' => Owner(l) \/ (l = k /\ x.pc = "granted")
         /\ \A l \in Clusters : ~Owner(l) /\ (l = k => x.pc # "granted") => ~Owner(l)'
         /\ around' = around
  <1>1. /\ TypeOK /\ CaseInv /\ RecordInv /\ SchedInv /\ SubmitInv
        /\ JobTypes /\ net \in Nets /\ LinkTypes /\ SchedTypes /\ FlagTypes /\ CaseOK(case)
    BY Zenon, FedParts
  <1>2. /\ job' = job /\ submitted' = submitted /\ around' = around /\ case' = case /\ up' = up
    BY Zenon DEF ctlVars
  <1>3. /\ SchedTypes' /\ SchedInv'
        /\ \A l \in Clusters : sched'[l] = IF l = k THEN x ELSE sched[l]
    <2>1. x.pc = "idle" \/ job'[k] = "PENDING"
      BY Zenon, <1>2
    <2>2. SchedTypes' /\ SchedInv'
      BY Zenon, <1>1, <1>2, <2>1, SchedStep
    <2> QED
      BY Zenon, <1>1, <2>2 DEF SchedTypes
  <1>4. JobTypes'
    BY Zenon, <1>1 DEF JobTypes, Locks
  <1>5. RecordInv'
    BY Zenon, <1>1, <1>2 DEF RecordInv
  <1>6. SubmitInv'
    BY Zenon, <1>1, <1>2, SubmitKept
  <1>7. TypeOK' /\ CaseInv'
    <2>1. /\ LinkTypes' /\ FlagTypes' /\ net' \in Nets /\ CaseOK(case)' /\ CaseInv'
      BY Zenon, <1>1, <1>2 DEF LinkTypes, FlagTypes, Hushed, CaseInv, CaseOK
    <2> QED
      BY Zenon, <1>3, <1>4, <2>1
      DEF TypeOK, JobTypes, Nets, LinkTypes, ConnTypes, SchedTypes, FlagTypes, CaseOK
  <1>8. ASSUME NEW l \in Clusters
        PROVE  Owner(l)' => Owner(l) \/ (l = k /\ x.pc = "granted")
    <2>1. HasRun(net'[l][Origin]) => HasRun(net[l][Origin])
      BY Zenon, Ids DEF Hushed, Quiet
    <2> QED
      BY Zenon, <1>2, <1>3, <2>1 DEF Owner
  <1> QED
    BY Zenon, <1>2, <1>3, <1>5, <1>6, <1>7, <1>8 DEF FedRest

\* The answer of the origin, and the decision to go around it
LEMMA JobLockInv ==
  ASSUME FedInv, NEW k \in Clusters, JobLock(k)
  PROVE  FedInv'
  <1>1. /\ TypeOK /\ CaseInv /\ RecordInv /\ SchedInv /\ SubmitInv /\ OwnInv
        /\ JobTypes /\ net \in Nets /\ LinkTypes /\ SchedTypes /\ FlagTypes
    BY Zenon, FedParts
  <1>2. /\ k # Origin /\ sched[k] = Idle /\ job[k] = "PENDING"
        /\ UNCHANGED <<job, result, active, fini, recvd, sent, ctlVars>> /\ recLock' = recLock
    BY Zenon, <1>1 DEF JobLock, Free, SchedInv
  <1>3. recLock' \in [Clusters -> Clusters \cup {NoLock}] /\ Origin \in Clusters
    BY Zenon, <1>1, <1>2, Ids DEF JobTypes
  <1>4. CASE /\ Reachable(k, Origin) => MayLock(Origin, k)
             /\ conn' = SendRecv(k, Origin)
             /\ net' = Greeted(net, k, Origin)
             /\ infoLock' = IF Reachable(k, Origin) THEN LockSet(Origin, k) ELSE infoLock
             /\ sched' = IF Reachable(k, Origin)
                         THEN [sched EXCEPT ![k].pc = "granted"] ELSE sched
    <2>1. Hushed(net, net')
      BY Zenon, <1>1, <1>3, <1>4, GreetedQuiet
    <2>2. ConnTypes'
      BY Zenon, <1>1, <1>3, <1>4, SendRecvTyped DEF LinkTypes, ConnTypes
    <2>3. CASE Reachable(k, Origin)
      <3> DEFINE x == [Idle EXCEPT !.pc = "granted"]
      <3>1. sched' = [sched EXCEPT ![k] = x]
        BY Zenon, <1>1, <1>2, <1>4, <2>3 DEF SchedTypes
      <3>2. GoodAttempt(k, x)
        BY Zenon, <1>2 DEF GoodAttempt, SchedRecs, Idle
      <3> HIDE DEF x
      <3>3. MayLock(Origin, k) /\ infoLock' = LockSet(Origin, k)
        BY Zenon, <1>4, <2>3
      <3>4. /\ infoLock' \in Locks /\ infoLock'[Origin] = k
            /\ \A l \in Clusters : infoLock'[l] = NoInfo <=> infoLock[l] = NoInfo
        BY SMTT(30), <1>1, <1>3, <3>3, LockIs
      <3>5. FedRest' /\ around' = around /\ \A l \in Clusters : Owner(l)' => Owner(l) \/ l = k
        BY Zenon, <1>2, <1>3, <2>1, <2>2, <3>1, <3>2, <3>4, AttemptKept
      <3>6. infoLock[Origin] \in {NoLock, k}
        BY Zenon, <3>3 DEF MayLock
      <3>7. OwnInv'
        BY Zenon, <1>1, <3>4, <3>5, <3>6, OwnTaken
      <3> QED
        BY Zenon, <3>5, <3>7 DEF FedRest, FedInv
    <2>4. CASE ~Reachable(k, Origin)
      <3>1. UNCHANGED <<jobVars, sched, submitted, around>>
        BY Zenon, <1>2, <1>4, <2>4 DEF jobVars, ctlVars
      <3>2. LinkTypes'
        BY Zenon, <1>1, <1>2, <2>2 DEF LinkTypes
      <3> QED
        BY Zenon, <1>1, <1>2, <2>1, <3>1, <3>2, FrameKept, FedParts DEF ctlVars, CaseInv, CaseOK, FlagTypes
    <2> QED
      BY Zenon, <2>3, <2>4
  <1>5. CASE /\ sched' = [sched EXCEPT ![k] =
                            [pc |-> "locking", todo |-> Others(Origin), got |-> {}]]
             /\ UNCHANGED <<conn, net, infoLock>>
    <2> DEFINE x == [pc |-> "locking", todo |-> Others(Origin), got |-> {}]
    <2>1. sched' = [sched EXCEPT ![k] = x] /\ x.pc # "granted"
      BY Zenon, <1>5
    <2>2. GoodAttempt(k, x)
      BY Zenon, <1>2 DEF GoodAttempt, SchedRecs, Others
    <2> HIDE DEF x
    <2>3. Hushed(net, net') /\ ConnTypes'
      BY Zenon, <1>1, <1>5, HushedBasics DEF LinkTypes, ConnTypes
    <2>4. infoLock' \in Locks /\ infoLock' = infoLock
      BY Zenon, <1>1, <1>5 DEF JobTypes, Locks
    <2>5. FedRest' /\ around' = around /\ \A l \in Clusters : Owner(l)' => Owner(l)
      BY Zenon, <1>2, <1>3, <2>1, <2>2, <2>3, <2>4, AttemptKept
    <2>6. OwnInv'
      BY Zenon, <1>1, <2>4, <2>5, OwnKept
    <2> QED
      BY Zenon, <2>5, <2>6 DEF FedRest, FedInv
  <1> QED
    BY <1>4, <1>5, Zenon DEF JobLock

\* An RPC from k to s, which may be k itself
LEMMA CallQuiet ==
  ASSUME FedInv, NEW k \in Clusters, NEW s \in Clusters,
         conn' = IF s = k THEN conn ELSE SendRecv(k, s),
         net' = IF s = k THEN net ELSE Greeted(net, k, s)
  PROVE  Hushed(net, net') /\ ConnTypes'
  <1>1. net \in Nets /\ ConnTypes
    BY Zenon, FedParts DEF LinkTypes
  <1>2. Hushed(net, net')
    BY Zenon, <1>1, HushedBasics, GreetedQuiet
  <1>3. ConnTypes'
    BY Zenon, <1>1, SendRecvTyped DEF ConnTypes
  <1> QED
    BY Zenon, <1>2, <1>3

\* A step inside an attempt that leaves the origin's lock alone
LEMMA AttemptOwn ==
  ASSUME FedInv, NEW k \in Clusters, NEW x,
         UNCHANGED <<job, result, active, fini, recvd, sent, ctlVars>>,
         Hushed(net, net'), ConnTypes',
         recLock' \in [Clusters -> Clusters \cup {NoLock}],
         infoLock' \in Locks,
         \A l \in Clusters : infoLock'[l] = NoInfo <=> infoLock[l] = NoInfo,
         infoLock'[Origin] = infoLock[Origin],
         sched' = [sched EXCEPT ![k] = x],
         GoodAttempt(k, x), x.pc = "idle" \/ job[k] = "PENDING", x.pc # "granted"
  PROVE  FedInv'
  <1>1. FedRest' /\ around' = around /\ \A l \in Clusters : Owner(l)' => Owner(l)
    BY Zenon, AttemptKept
  <1>2. OwnInv'
    BY Zenon, <1>1, FedParts, OwnKept
  <1> QED
    BY Zenon, <1>1, <1>2 DEF FedRest, FedInv

\* _job_lock_all_sibs: the next sibling is asked.
LEMMA LockNextSibInv ==
  ASSUME FirstIds, FedInv, NEW k \in Clusters, LockNextSib(k)
  PROVE  FedInv'
  <1> DEFINE s == Min(sched[k].todo)
             yes == s = k \/ Reachable(k, s)
             next == [sched[k] EXCEPT !.todo = @ \ {s}]
             A == /\ s # k /\ conn[k][s] = "NULL"
                  /\ sched' = [sched EXCEPT ![k] = next]
                  /\ UNCHANGED <<conn, net, infoLock>>
             B == /\ s = k \/ conn[k][s] # "NULL"
                  /\ yes /\ MayLock(s, k)
                  /\ sched' = [sched EXCEPT ![k] = [next EXCEPT !.got = @ \cup {s}]]
                  /\ infoLock' = LockSet(s, k)
                  /\ conn' = IF s = k THEN conn ELSE SendRecv(k, s)
                  /\ net' = IF s = k THEN net ELSE Greeted(net, k, s)
             C == /\ s = k \/ conn[k][s] # "NULL"
                  /\ ~(yes /\ MayLock(s, k))
                  /\ sched' = [sched EXCEPT ![k] = [next EXCEPT !.pc = "release", !.todo = {}]]
                  /\ conn' = IF s = k THEN conn ELSE SendRecv(k, s)
                  /\ net' = IF s = k THEN net ELSE Greeted(net, k, s)
                  /\ UNCHANGED infoLock
  <1>1. /\ A \/ B \/ C
        /\ UNCHANGED <<job, result, recLock, active, fini, recvd, sent, ctlVars>>
        /\ sched[k].pc = "locking" /\ sched[k].todo # {}
    BY Zenon DEF LockNextSib
  <1>2. /\ TypeOK /\ CaseInv /\ RecordInv /\ SchedInv /\ SubmitInv /\ OwnInv
        /\ JobTypes /\ net \in Nets /\ LinkTypes /\ SchedTypes
    BY Zenon, FedParts
  <1>3. /\ sched[k] \in SchedRecs /\ job[k] = "PENDING" /\ k # Origin
        /\ sched[k].todo \cup sched[k].got \subseteq Others(Origin)
    BY Zenon, <1>1, <1>2 DEF SchedInv, SchedTypes, SchedRecs
  <1>4. s \in sched[k].todo
    BY Zenon, <1>1, <1>3 DEF SchedRecs, FirstIds
  <1> HIDE DEF s
  <1>5. s \in Clusters /\ s # Origin /\ Origin \in Clusters
    BY Zenon, <1>3, <1>4, Ids DEF Others
  <1>6. recLock' \in [Clusters -> Clusters \cup {NoLock}]
    BY Zenon, <1>1, <1>2 DEF JobTypes
  <1>7. CASE A
    <2>1. GoodAttempt(k, next) /\ next.pc # "granted"
      BY Zenon, <1>1, <1>3 DEF GoodAttempt, SchedRecs
    <2>2. Hushed(net, net') /\ ConnTypes'
      BY Zenon, <1>2, <1>7, HushedBasics DEF LinkTypes, ConnTypes
    <2>3. infoLock' \in Locks /\ infoLock' = infoLock
      BY Zenon, <1>2, <1>7 DEF JobTypes, Locks
    <2> HIDE DEF next
    <2> QED
      BY Zenon, <1>1, <1>3, <1>6, <1>7, <2>1, <2>2, <2>3, AttemptOwn
  <1>8. CASE B
    <2> DEFINE x == [next EXCEPT !.got = @ \cup {s}]
    <2>1. GoodAttempt(k, x) /\ x.pc # "granted"
      BY Zenon, <1>1, <1>3, <1>4, <1>5 DEF GoodAttempt, SchedRecs
    <2> HIDE DEF x
    <2>2. Hushed(net, net') /\ ConnTypes'
      BY Zenon, <1>5, <1>8, CallQuiet
    <2>3. /\ infoLock' \in Locks /\ infoLock'[Origin] = infoLock[Origin]
          /\ \A l \in Clusters : infoLock'[l] = NoInfo <=> infoLock[l] = NoInfo
      BY <1>2, <1>5, <1>8, LockIs
    <2>4. sched' = [sched EXCEPT ![k] = x]
      BY Zenon, <1>8 DEF x
    <2> QED
      BY Zenon, <1>1, <1>3, <1>6, <2>1, <2>2, <2>3, <2>4, AttemptOwn
  <1>9. CASE C
    <2> DEFINE x == [next EXCEPT !.pc = "release", !.todo = {}]
    <2>1. GoodAttempt(k, x) /\ x.pc # "granted"
      BY Zenon, <1>1, <1>3, <1>5 DEF GoodAttempt, SchedRecs
    <2> HIDE DEF x
    <2>2. Hushed(net, net') /\ ConnTypes'
      BY Zenon, <1>5, <1>9, CallQuiet
    <2>3. infoLock' \in Locks /\ infoLock' = infoLock
      BY Zenon, <1>2, <1>9 DEF JobTypes, Locks
    <2>4. sched' = [sched EXCEPT ![k] = x]
      BY Zenon, <1>9 DEF x
    <2> QED
      BY Zenon, <1>1, <1>3, <1>6, <2>1, <2>2, <2>3, <2>4, AttemptOwn
  <1> QED
    BY Zenon, <1>1, <1>7, <1>8, <1>9

\* An attempt may end.
LEMMA IdleGood ==
  ASSUME NEW k
  PROVE  GoodAttempt(k, Idle) /\ Idle.pc = "idle"
  BY Zenon DEF GoodAttempt, SchedRecs, Idle

\* _job_unlock_spec_sibs: the next lock is given back.
LEMMA UnlockNextSibInv ==
  ASSUME FirstIds, FedInv, NEW k \in Clusters, UnlockNextSib(k)
  PROVE  FedInv'
  <1> DEFINE s == Min(sched[k].got)
             x == [sched[k] EXCEPT !.got = @ \ {s}]
  <1>1. /\ UNCHANGED <<job, result, recLock, active, fini, recvd, sent, ctlVars>>
        /\ sched[k].pc \in {"release", "locking"}
    BY Zenon DEF UnlockNextSib, AskedNobody
  <1>2. /\ TypeOK /\ CaseInv /\ RecordInv /\ SchedInv /\ SubmitInv /\ OwnInv
        /\ JobTypes /\ net \in Nets /\ LinkTypes /\ SchedTypes
    BY Zenon, FedParts
  <1>3. /\ sched[k] \in SchedRecs /\ job[k] = "PENDING" /\ k # Origin
        /\ sched[k].todo \cup sched[k].got \subseteq Others(Origin)
    BY Zenon, <1>1, <1>2 DEF SchedInv, SchedTypes, SchedRecs
  <1>4. recLock' \in [Clusters -> Clusters \cup {NoLock}]
    BY Zenon, <1>1, <1>2 DEF JobTypes
  <1>5. CASE sched' = [sched EXCEPT ![k] = Idle] /\ UNCHANGED <<infoLock, conn, net>>
    <2>1. Hushed(net, net') /\ ConnTypes'
      BY Zenon, <1>2, <1>5, HushedBasics DEF LinkTypes, ConnTypes
    <2>2. infoLock' \in Locks /\ infoLock' = infoLock
      BY Zenon, <1>2, <1>5 DEF JobTypes, Locks
    <2> QED
      BY Zenon, <1>1, <1>4, <1>5, <2>1, <2>2, IdleGood, AttemptOwn
  <1>6. CASE /\ sched[k].got # {}
             /\ sched' = [sched EXCEPT ![k].got = @ \ {s}]
             /\ infoLock' = IF s = k \/ Reachable(k, s) THEN LockUnset(s, k) ELSE infoLock
             /\ conn' = IF s = k THEN conn ELSE SendRecv(k, s)
             /\ net' = IF s = k THEN net ELSE Greeted(net, k, s)
    <2>1. s \in sched[k].got
      BY Zenon, <1>3, <1>6 DEF SchedRecs, FirstIds
    <2> HIDE DEF s
    <2>2. s \in Clusters /\ s # Origin /\ Origin \in Clusters
      BY Zenon, <1>3, <2>1, Ids DEF Others
    <2>3. GoodAttempt(k, x) /\ x.pc # "granted"
      BY Zenon, <1>1, <1>3 DEF GoodAttempt, SchedRecs
    <2>4. sched' = [sched EXCEPT ![k] = x]
      BY Zenon, <1>2, <1>6 DEF SchedTypes
    <2> HIDE DEF x
    <2>5. Hushed(net, net') /\ ConnTypes'
      BY Zenon, <1>6, <2>2, CallQuiet
    <2>6. /\ infoLock' \in Locks /\ infoLock'[Origin] = infoLock[Origin]
          /\ \A l \in Clusters : infoLock'[l] = NoInfo <=> infoLock[l] = NoInfo
      <3>1. CASE infoLock' = infoLock
        BY Zenon, <1>2, <3>1 DEF JobTypes, Locks
      <3>2. CASE infoLock' = LockUnset(s, k)
        BY SMTT(30), <1>2, <2>2, <3>2, LockIs
      <3> QED
        BY Zenon, <1>6, <3>1, <3>2
    <2> QED
      BY Zenon, <1>1, <1>3, <1>4, <2>3, <2>4, <2>5, <2>6, AttemptOwn
  <1> QED
    BY <1>5, <1>6, Zenon DEF UnlockNextSib

\* An attempt that has the lock is one of a sibling's pending copies.
LEMMA GrantedPending ==
  ASSUME FedInv, NEW k \in Clusters, Granted(k)
  PROVE  /\ job[k] = "PENDING" /\ k # Origin /\ sched[k].pc \in {"granted", "locking"}
         /\ sched[k].pc = "granted" \/ sched[k].got # {}
  BY Zenon, FedParts DEF Granted, SchedInv

\* The attempt ends: the sibling's own lock is another's.
LEMMA JobLockRefusedInv ==
  ASSUME FedInv, NEW k \in Clusters, JobLockRefused(k)
  PROVE  FedInv'
  <1>1. /\ JobTypes /\ net \in Nets /\ LinkTypes
    BY Zenon, FedParts
  <1>2. Hushed(net, net') /\ ConnTypes'
    BY Zenon, <1>1, HushedBasics DEF JobLockRefused, linkVars, LinkTypes, ConnTypes
  <1>3. recLock' \in [Clusters -> Clusters \cup {NoLock}]
    BY Zenon, <1>1 DEF JobLockRefused, JobTypes
  <1>4. infoLock' \in Locks /\ infoLock' = infoLock
    BY Zenon, <1>1 DEF JobLockRefused, JobTypes, Locks
  <1>5. /\ UNCHANGED <<job, result, active, fini, recvd, sent, ctlVars>>
        /\ sched' = [sched EXCEPT ![k] = Idle]
    BY Zenon DEF JobLockRefused, linkVars
  <1> QED
    BY Zenon, <1>2, <1>3, <1>4, <1>5, IdleGood, AttemptOwn

-----------------------------------------------------------------------------
(* Steps that change a record.                                             *)

Live == {"RUNNING", "COMPLETING"}

\* The record of cluster k changes, outside an attempt: it is not made, not
\* made pending and not made to run.
RecordStep(k) ==
  /\ sched[k].pc = "idle" /\ UNCHANGED <<sched, submitted, around, up>>
  /\ JobTypes' /\ LinkTypes' /\ CaseInv' /\ CaseOK(case)' /\ Hushed(net, net')
  /\ \A l \in Clusters \ {k} : job'[l] = job[l] /\ infoLock'[l] = infoLock[l]
  /\ job'[k] = "NONE" <=> infoLock'[k] = NoInfo
  /\ job[k] = "NONE" => job'[k] = "NONE"
  /\ job'[k] = "PENDING" => job[k] = "PENDING"
  /\ job'[k] \in Live => job[k] \in Live

\* Such a step keeps all of the invariant but the one owner.
LEMMA RecordKept ==
  ASSUME FedInv, NEW k \in Clusters, RecordStep(k)
  PROVE  FedRest' /\ around' = around /\ \A l \in Clusters : Owner(l)' => Owner(l)
  <1>1. /\ TypeOK /\ CaseInv /\ RecordInv /\ SchedInv /\ SubmitInv
        /\ SchedTypes /\ FlagTypes
    BY Zenon, FedParts
  <1>2. /\ sched' = sched /\ submitted' = submitted /\ around' = around /\ up' = up
        /\ Hushed(net, net') /\ JobTypes' /\ LinkTypes' /\ CaseInv' /\ CaseOK(case)'
    BY Zenon DEF RecordStep
  <1>3. \A l \in Clusters : /\ job[l] = "NONE" => job'[l] = "NONE"
                            /\ job'[l] = "PENDING" => job[l] = "PENDING"
                            /\ job'[l] \in Live => job[l] \in Live
                            /\ l = k \/ (job'[l] = job[l] /\ infoLock'[l] = infoLock[l])
                            /\ l = k => sched[l].pc = "idle"
    BY Zenon DEF RecordStep
  <1>4. RecordInv'
    <2> SUFFICES ASSUME NEW l \in Clusters
                 PROVE  job'[l] = "NONE" <=> infoLock'[l] = NoInfo
      BY Zenon DEF RecordInv
    <2>1. CASE l = k
      BY Zenon, <2>1 DEF RecordStep
    <2>2. CASE l # k
      BY Zenon, <1>1, <1>3, <2>2 DEF RecordInv
    <2> QED
      BY Zenon, <2>1, <2>2
  <1>5. SchedInv'
    BY Zenon, <1>1, <1>2, <1>3 DEF SchedInv
  <1>6. SubmitInv'
    BY Zenon, <1>1, <1>2, <1>3, SubmitKept
  <1>7. TypeOK'
    <2>1. SchedTypes' /\ FlagTypes' /\ net' \in Nets
      BY Zenon, <1>1, <1>2 DEF SchedTypes, FlagTypes, Hushed
    <2> QED
      BY Zenon, <1>2, <2>1
      DEF TypeOK, JobTypes, Nets, LinkTypes, ConnTypes, SchedTypes, FlagTypes, CaseOK
  <1>8. \A l \in Clusters : Owner(l)' => Owner(l)
    <2> SUFFICES ASSUME NEW l \in Clusters
                 PROVE  Owner(l)' => Owner(l)
      BY Zenon
    <2>1. HasRun(net'[l][Origin]) => HasRun(net[l][Origin])
      BY Zenon, <1>2, Ids DEF Hushed, Quiet
    <2> QED
      BY Zenon, <1>2, <1>3, <2>1 DEF Owner, Live
  <1> QED
    BY Zenon, <1>2, <1>4, <1>5, <1>6, <1>7, <1>8 DEF FedRest

\* The same when the origin's lock is left alone or removed
LEMMA RecordOwn ==
  ASSUME FedInv, NEW k \in Clusters, RecordStep(k),
         infoLock'[Origin] \in {infoLock[Origin], NoInfo}
  PROVE  FedInv'
  <1>1. FedRest' /\ around' = around /\ \A l \in Clusters : Owner(l)' => Owner(l)
    BY Zenon, RecordKept
  <1>2. OwnInv'
    BY Zenon, <1>1, FedParts, OwnKept
  <1> QED
    BY Zenon, <1>1, <1>2 DEF FedRest, FedInv

\* A state of the record that is neither NONE nor PENDING nor live
LEMMA StatesApart ==
  /\ {"NONE", "PENDING", "REVOKED", "RUNNING", "COMPLETING", "DONE"} = JobStates
  /\ \A s \in {"REVOKED", "DONE"} : s # "NONE" /\ s # "PENDING" /\ s \notin Live
  /\ "COMPLETING" \in Live /\ "RUNNING" \in Live /\ "NONE" \notin Live /\ "PENDING" \notin Live
  BY Zenon DEF JobStates, Live

\* The links, the case and the federation's flags do not change.
LEMMA CalmLinks ==
  ASSUME FedInv, UNCHANGED linkVars, UNCHANGED case
  PROVE  LinkTypes' /\ CaseInv' /\ CaseOK(case)'
  BY Zenon, FedParts DEF linkVars, LinkTypes, ConnTypes, CaseInv, CaseOK

\* The job ends where it runs.
LEMMA JobEndsInv ==
  ASSUME FedInv, NEW k \in Clusters, NEW r \in case.ends, JobEnds(k, r)
  PROVE  FedInv'
  <1>1. JobTypes /\ RecordInv /\ CaseInv /\ net \in Nets
    BY Zenon, FedParts
  <1>2. r \in Results
    BY Zenon, <1>1 DEF CaseInv, CaseTypes, Results
  <1>3. /\ job' = [job EXCEPT ![k] = "COMPLETING"] /\ result' = [result EXCEPT ![k] = r]
        /\ UNCHANGED <<recLock, infoLock, active, net, linkVars, sched>>
        /\ UNCHANGED <<submitted, up, case, around>>
        /\ job[k] = "RUNNING" /\ sched[k].pc = "idle"
    BY Zenon DEF JobEnds, Free, ctlVars
  <1>4. JobTypes' /\ \A l \in Clusters : job'[l] = IF l = k THEN "COMPLETING" ELSE job[l]
    BY Zenon, <1>1, <1>2, <1>3 DEF JobTypes, JobStates
  <1>5. LinkTypes' /\ CaseInv' /\ CaseOK(case)' /\ Hushed(net, net')
    BY Zenon, <1>1, <1>3, CalmLinks, HushedBasics
  <1>6. RecordStep(k)
    BY Zenon, <1>1, <1>3, <1>4, <1>5, StatesApart DEF RecordStep, RecordInv
  <1> QED
    BY Zenon, <1>3, <1>6, RecordOwn

\* The job is completed where it ran.
LEMMA CleanupCompletingInv ==
  ASSUME FedInv, NEW k \in Clusters, CleanupCompleting(k)
  PROVE  FedInv'
  <1>1. JobTypes /\ RecordInv /\ net \in Nets
    BY Zenon, FedParts
  <1>2. /\ job' = [job EXCEPT ![k] = "DONE"] /\ net' = JobComplete(net, k)
        /\ UNCHANGED <<result, recLock, infoLock, active, linkVars, sched>>
        /\ UNCHANGED <<submitted, up, case, around>>
        /\ job[k] = "COMPLETING" /\ sched[k].pc = "idle"
    BY Zenon DEF CleanupCompleting, Free, ctlVars
  <1>3. JobTypes' /\ \A l \in Clusters : job'[l] = IF l = k THEN "DONE" ELSE job[l]
    BY Zenon, <1>1, <1>2 DEF JobTypes, JobStates
  <1>4. LinkTypes' /\ CaseInv' /\ CaseOK(case)'
    BY Zenon, <1>2, CalmLinks
  <1>5. Hushed(net, net')
    BY Zenon, <1>1, <1>2, RevokeQuiet DEF JobComplete
  <1>6. RecordStep(k)
    BY Zenon, <1>1, <1>2, <1>3, <1>4, <1>5, StatesApart DEF RecordStep, RecordInv
  <1> QED
    BY Zenon, <1>2, <1>6, RecordOwn

\* unlink_job_record
LEMMA UnlinkIs ==
  ASSUME JobTypes, NEW k \in Clusters, Unlink(k), result' = result, active' = active
  PROVE  /\ JobTypes' /\ job'[k] = "NONE" /\ infoLock'[k] = NoInfo
         /\ \A l \in Clusters \ {k} : job'[l] = job[l] /\ infoLock'[l] = infoLock[l]
  BY Zenon DEF JobTypes, Unlink, JobStates

\* A record is purged.
LEMMA PurgeOldJobInv ==
  ASSUME FedInv, NEW k \in Clusters, PurgeOldJob(k)
  PROVE  FedInv'
  <1>1. JobTypes /\ RecordInv /\ net \in Nets
    BY Zenon, FedParts
  <1>2. /\ Unlink(k) /\ sched[k].pc = "idle"
        /\ UNCHANGED <<result, active, net, linkVars, sched>>
        /\ UNCHANGED <<submitted, up, case, around>>
    BY Zenon DEF PurgeOldJob, Free, ctlVars
  <1>3. /\ JobTypes' /\ job'[k] = "NONE" /\ infoLock'[k] = NoInfo
        /\ \A l \in Clusters \ {k} : job'[l] = job[l] /\ infoLock'[l] = infoLock[l]
    BY Zenon, <1>1, <1>2, UnlinkIs
  <1>4. LinkTypes' /\ CaseInv' /\ CaseOK(case)' /\ Hushed(net, net')
    BY Zenon, <1>1, <1>2, CalmLinks, HushedBasics
  <1>5. RecordStep(k)
    BY Zenon, <1>2, <1>3, <1>4, StatesApart DEF RecordStep
  <1>6. infoLock'[Origin] \in {infoLock[Origin], NoInfo}
    BY Zenon, <1>3, Ids
  <1> QED
    BY Zenon, <1>5, <1>6, RecordOwn

\* job_signal may end the record of k, or send a request on.
LEMMA SignalIs ==
  ASSUME FedInv, NEW k \in Clusters, NEW noSibs \in BOOLEAN, NEW n, Hushed(net, n),
         JobSignal(k, noSibs, n), UNCHANGED <<recLock, infoLock, active>>
  PROVE  /\ JobTypes' /\ Hushed(net, net')
         /\ \A l \in Clusters \ {k} : job'[l] = job[l] /\ infoLock'[l] = infoLock[l]
         /\ job'[k] = "NONE" <=> infoLock'[k] = NoInfo
         /\ job[k] = "NONE" => job'[k] = "NONE"
         /\ job'[k] = "PENDING" => job[k] = "PENDING"
         /\ job'[k] \in Live => job[k] \in Live
  <1>1. JobTypes /\ RecordInv /\ net \in Nets
    BY Zenon, FedParts
  <1>2. n \in Nets
    BY Zenon DEF Hushed
  <1>3. \A p : Hushed(n, p) => Hushed(net, p)
    BY Zenon, <1>1, HushedBasics
  <1>4. CASE UNCHANGED <<job, result>> /\ (net' = n \/ net' = Put(n, k, active \ {k}, Msg("CANCEL")))
    <2>1. Hushed(net, net')
      BY Zenon, <1>2, <1>3, <1>4, PutQuiet, PlainMsg
    <2> QED
      BY Zenon, <1>1, <1>4, <2>1 DEF JobTypes, RecordInv
  <1>5. CASE /\ job[k] = "RUNNING" /\ net' = n
             /\ job' = [job EXCEPT ![k] = "COMPLETING"]
             /\ result' = [result EXCEPT ![k] = "CANCELLED"]
    <2>1. JobTypes' /\ \A l \in Clusters : job'[l] = IF l = k THEN "COMPLETING" ELSE job[l]
      BY Zenon, <1>1, <1>5 DEF JobTypes, JobStates, Results
    <2> QED
      BY Zenon, <1>1, <1>5, <2>1, StatesApart DEF RecordInv
  <1>6. CASE /\ job[k] \in {"PENDING", "REVOKED"}
             /\ job' = [job EXCEPT ![k] = "DONE"]
             /\ result' = [result EXCEPT ![k] = "CANCELLED"]
             /\ LET told == CASE noSibs \/ (k # Origin /\ HasConn(k, Origin)) -> n
                              [] ~noSibs /\ k = Origin -> RevokeSiblingJobs(n, k, active)
                              [] OTHER -> Put(n, k, {l \in Others(k) : HasConn(k, l)},
                                              Msg("CANCEL_NO_SIBS"))
                IN net' = JobComplete(told, k)
    <2>1. JobTypes' /\ \A l \in Clusters : job'[l] = IF l = k THEN "DONE" ELSE job[l]
      BY Zenon, <1>1, <1>6 DEF JobTypes, JobStates, Results
    <2> DEFINE S == {l \in Others(k) : HasConn(k, l)}
    <2>2. PICK told : /\ net' = JobComplete(told, k)
                      /\ \/ told = n
                         \/ told = RevokeSiblingJobs(n, k, active)
                         \/ told = Put(n, k, S, Msg("CANCEL_NO_SIBS"))
      BY Zenon, <1>6
    <2> HIDE DEF S
    <2>3. Hushed(net, told)
      BY Zenon, <1>2, <1>3, <2>2, RevokeQuiet, PutQuiet, PlainMsg
    <2>4. Hushed(told, net')
      BY Zenon, <2>2, <2>3, RevokeQuiet DEF JobComplete, Hushed
    <2>5. Hushed(net, net')
      BY Zenon, <1>1, <2>3, <2>4, HushedBasics
    <2> QED
      BY Zenon, <1>1, <1>6, <2>1, <2>5, StatesApart DEF RecordInv
  <1> QED
    BY Zenon, <1>4, <1>5, <1>6 DEF JobSignal

\* A user cancels the job at some cluster.
LEMMA KillJobInv ==
  ASSUME FedInv, NEW k \in Clusters, KillJob(k)
  PROVE  FedInv'
  <1>1. /\ sched[k].pc = "idle" /\ JobSignal(k, FALSE, net)
        /\ UNCHANGED <<recLock, infoLock, active, linkVars, submitted, up, around, sched>>
        /\ case.kills > 0 /\ case' = [case EXCEPT !.kills = @ - 1]
    BY Zenon DEF KillJob, Free
  <1>2. Hushed(net, net)
    BY Zenon, FedParts, HushedBasics
  <1>3. PICK no \in {FALSE} : TRUE
    BY Zenon
  <1>4. JobSignal(k, no, net) /\ no \in BOOLEAN
    BY Zenon, <1>1, <1>3
  <1>5. LinkTypes'
    BY Zenon, <1>1, FedParts DEF linkVars, LinkTypes, ConnTypes
  <1>6. CaseInv' /\ CaseOK(case)'
    <2>1. case' \in CaseTypes /\ CaseOK(case')
      BY Zenon, <1>1, FedParts, CaseCounts DEF CaseInv
    <2> QED
      BY Zenon, <2>1 DEF CaseInv, CaseOK
  <1>7. RecordStep(k)
    BY Zenon, <1>1, <1>2, <1>4, <1>5, <1>6, SignalIs DEF RecordStep
  <1> QED
    BY Zenon, <1>1, <1>7, RecordOwn

\* The reports of a pending copy
LEMMA PendingUnreported ==
  ASSUME FedInv, NEW k \in Clusters, job[k] = "PENDING"
  PROVE  ~HasRun(net[k][Origin])
  BY Zenon, FedParts DEF SubmitInv

\* A sibling that has the lock starts the job.
LEMMA SiblingStartInv ==
  ASSUME FedInv, NEW k \in Clusters, SiblingStart(k)
  PROVE  FedInv'
  <1>1. /\ TypeOK /\ CaseInv /\ RecordInv /\ SchedInv /\ SubmitInv /\ OwnInv
        /\ JobTypes /\ net \in Nets /\ LinkTypes /\ SchedTypes /\ FlagTypes /\ CaseOK(case)
    BY Zenon, FedParts
  <1>2. /\ job[k] = "PENDING" /\ k # Origin
        /\ sched[k].pc = "granted" \/ sched[k].got # {}
    BY ZenonT(30), GrantedPending DEF SiblingStart
  <1>3. /\ MayLock(k, k) /\ infoLock' = LockSet(k, k)
        /\ sched' = [sched EXCEPT ![k] = Idle]
        /\ job' = [job EXCEPT ![k] = "RUNNING"]
        /\ recLock' = [recLock EXCEPT ![k] = k]
        /\ around' = (around \/ sched[k].got # {})
        /\ UNCHANGED <<result, active, linkVars, submitted, up, case>>
    BY Zenon DEF SiblingStart
  <1>4. Origin \in Clusters
    BY Zenon, Ids
  <1>5. Hushed(net, net')
    BY ZenonT(30), <1>1, RevokeQuiet, PutQuiet, PlainMsg DEF SiblingStart
  <1>6. /\ infoLock' \in Locks /\ infoLock'[Origin] = infoLock[Origin]
        /\ \A l \in Clusters : infoLock'[l] = NoInfo <=> infoLock[l] = NoInfo
    BY SMTT(30), <1>1, <1>2, <1>3, <1>4, LockIs
  <1>7. JobTypes' /\ \A l \in Clusters : job'[l] = IF l = k THEN "RUNNING" ELSE job[l]
    BY Zenon, <1>1, <1>3, <1>6 DEF JobTypes, JobStates, Locks
  <1>8. RecordInv'
    BY Zenon, <1>1, <1>2, <1>6, <1>7 DEF RecordInv
  <1>9. /\ SchedTypes' /\ SchedInv'
        /\ \A l \in Clusters : sched'[l] = IF l = k THEN Idle ELSE sched[l]
    <2>1. \A l \in Clusters \ {k} : job'[l] = job[l]
      BY Zenon, <1>7
    <2>2. SchedTypes' /\ SchedInv'
      BY Zenon, <1>1, <1>3, <2>1, IdleGood, SchedStep
    <2> QED
      BY Zenon, <1>1, <1>3, <2>2 DEF SchedTypes
  <1>10. SubmitInv'
    BY Zenon, <1>1, <1>2, <1>3, <1>5, <1>7, SubmitKept
  <1>11. FedRest'
    <2>1. LinkTypes' /\ CaseInv' /\ CaseOK(case)'
      BY Zenon, <1>3, CalmLinks
    <2>2. FlagTypes' /\ net' \in Nets
      BY Zenon, <1>1, <1>3, <1>5 DEF FlagTypes, Hushed
    <2> QED
      BY Zenon, <1>7, <1>8, <1>9, <1>10, <2>1, <2>2
      DEF FedRest, TypeOK, JobTypes, Nets, LinkTypes, ConnTypes, SchedTypes, FlagTypes, CaseOK
  <1>12. ASSUME ~around', NEW l \in Clusters
         PROVE  Owner(l)' => Owner(l)
    <2>1. sched[k].pc = "granted"
      BY Zenon, <1>2, <1>3, <1>12
    <2>2. HasRun(net'[l][Origin]) => HasRun(net[l][Origin])
      BY Zenon, <1>4, <1>5 DEF Hushed, Quiet
    <2> QED
      BY Zenon, <1>7, <1>9, <2>1, <2>2 DEF Owner, Idle
  <1>13. OwnInv'
    BY Zenon, <1>1, <1>3, <1>6, <1>12, OwnKept
  <1> QED
    BY Zenon, <1>11, <1>13 DEF FedRest, FedInv

\* The origin starts the job itself.
LEMMA OriginStartInv ==
  ASSUME FedInv, OriginStart
  PROVE  FedInv'
  <1>1. /\ TypeOK /\ CaseInv /\ RecordInv /\ SchedInv /\ SubmitInv /\ OwnInv
        /\ JobTypes /\ net \in Nets /\ LinkTypes /\ SchedTypes /\ FlagTypes /\ CaseOK(case)
    BY Zenon, FedParts
  <1>2. Origin \in Clusters
    BY Zenon, Ids
  <1>3. /\ job[Origin] = "PENDING" /\ sched[Origin].pc = "idle"
        /\ MayLock(Origin, Origin) /\ infoLock' = LockSet(Origin, Origin)
        /\ job' = [job EXCEPT ![Origin] = "RUNNING"]
        /\ recLock' = [recLock EXCEPT ![Origin] = Origin]
        /\ active' = {Origin} \ {NoLock}
        /\ net' = RevokeSiblingJobs(net, Origin, active \ {Origin})
        /\ UNCHANGED <<result, linkVars, sched>>
        /\ UNCHANGED <<submitted, up, case, around>>
    BY Zenon DEF OriginStart, Free, FedJobStartRevoke, ctlVars
  <1>4. Hushed(net, net')
    BY Zenon, <1>1, <1>2, <1>3, RevokeQuiet
  <1>5. /\ infoLock' \in Locks /\ infoLock'[Origin] = Origin
        /\ \A l \in Clusters : infoLock'[l] = NoInfo <=> infoLock[l] = NoInfo
    BY SMTT(30), <1>1, <1>2, <1>3, LockIs
  <1>6. JobTypes' /\ \A l \in Clusters : job'[l] = IF l = Origin THEN "RUNNING" ELSE job[l]
    BY Zenon, <1>1, <1>2, <1>3, <1>5 DEF JobTypes, JobStates, Locks
  <1>7. RecordInv'
    BY <1>1, <1>2, <1>3, <1>5, <1>6 DEF RecordInv
  <1>8. SchedInv'
    BY Zenon, <1>1, <1>3, <1>6 DEF SchedInv
  <1>9. SubmitInv'
    BY Zenon, <1>1, <1>3, <1>4, <1>6, SubmitKept
  <1>10. FedRest'
    <2>1. LinkTypes' /\ CaseInv' /\ CaseOK(case)'
      BY Zenon, <1>3, CalmLinks
    <2>2. FlagTypes' /\ SchedTypes' /\ net' \in Nets
      BY ZenonT(30), <1>1, <1>3, <1>4 DEF FlagTypes, SchedTypes, Hushed
    <2> QED
      BY ZenonT(30), <1>6, <1>7, <1>8, <1>9, <2>1, <2>2
      DEF FedRest, TypeOK, JobTypes, Nets, LinkTypes, ConnTypes, SchedTypes, FlagTypes, CaseOK
  <1>11. ASSUME NEW l \in Clusters
         PROVE  Owner(l)' => Owner(l) \/ l = Origin
    <2>1. HasRun(net'[l][Origin]) => HasRun(net[l][Origin])
      BY Zenon, <1>2, <1>4 DEF Hushed, Quiet
    <2> QED
      BY Zenon, <1>3, <1>6, <2>1 DEF Owner
  <1>12. infoLock[Origin] \in {NoLock, Origin}
    BY Zenon, <1>3 DEF MayLock
  <1>13. OwnInv'
    BY Zenon, <1>1, <1>2, <1>3, <1>5, <1>11, <1>12, OwnTaken
  <1> QED
    BY Zenon, <1>10, <1>13 DEF FedRest, FedInv

-----------------------------------------------------------------------------
(* Unlocking and submitting.                                               *)

\* A sibling that has the lock gives it back: it could not start the job.
LEMMA JobUnlockInv ==
  ASSUME FedInv, NEW k \in Clusters, JobUnlock(k)
  PROVE  FedInv'
  <1>1. /\ TypeOK /\ CaseInv /\ RecordInv /\ SchedInv /\ SubmitInv /\ OwnInv
        /\ JobTypes /\ net \in Nets /\ LinkTypes /\ SchedTypes
    BY Zenon, FedParts
  <1>2. job[k] = "PENDING" /\ k # Origin /\ ~HasRun(net[k][Origin]) /\ Origin \in Clusters
    BY Zenon, GrantedPending, PendingUnreported, Ids DEF JobUnlock
  <1>3. /\ MayLock(k, k)
        /\ UNCHANGED <<job, result, active, fini, recvd, sent, ctlVars>> /\ net' = net
    BY Zenon DEF JobUnlock
  <1>4. Hushed(net, net')
    BY Zenon, <1>1, <1>3, HushedBasics
  <1>5. CASE /\ recLock' = [recLock EXCEPT ![k] = NoLock]
             /\ infoLock' = LockUnset(k, k)
             /\ sched' = [sched EXCEPT ![k] =
                            [pc |-> "release", todo |-> {}, got |-> Others(Origin)]]
             /\ conn' = conn
    <2> DEFINE x == [pc |-> "release", todo |-> {}, got |-> Others(Origin)]
    <2>1. GoodAttempt(k, x) /\ x.pc # "granted"
      BY ZenonT(30), <1>2 DEF GoodAttempt, SchedRecs, Others
    <2>2. sched' = [sched EXCEPT ![k] = x]
      BY ZenonT(30), <1>5
    <2> HIDE DEF x
    <2>3. /\ infoLock' \in Locks /\ infoLock'[Origin] = infoLock[Origin]
          /\ \A l \in Clusters : infoLock'[l] = NoInfo <=> infoLock[l] = NoInfo
      BY SMTT(30), <1>1, <1>2, <1>5, LockIs
    <2>4. recLock' \in [Clusters -> Clusters \cup {NoLock}] /\ ConnTypes'
      BY Zenon, <1>1, <1>5 DEF JobTypes, LinkTypes, ConnTypes
    <2> QED
      BY ZenonT(30), <1>2, <1>3, <1>4, <2>1, <2>2, <2>3, <2>4, AttemptOwn
  <1>6. CASE /\ sched' = [sched EXCEPT ![k] = Idle]
             /\ conn' = SendRecv(k, Origin)
             /\ IF Reachable(k, Origin) /\ MayLock(Origin, k)
                THEN /\ infoLock' = [infoLock EXCEPT ![Origin] = NoLock, ![k] = NoLock]
                     /\ recLock' = [recLock EXCEPT ![k] = NoLock]
                ELSE /\ infoLock' = LockSet(k, k)
                     /\ recLock' = [recLock EXCEPT ![k] = k]
    <2>1. recLock' \in [Clusters -> Clusters \cup {NoLock}]
      BY Zenon, <1>1, <1>6 DEF JobTypes
    <2>2. ConnTypes'
      BY Zenon, <1>1, <1>2, <1>6, SendRecvTyped DEF LinkTypes, ConnTypes
    <2>3. CASE Reachable(k, Origin) /\ MayLock(Origin, k)
      <3>1. infoLock' = [infoLock EXCEPT ![Origin] = NoLock, ![k] = NoLock]
        BY Zenon, <1>6, <2>3
      <3>2. infoLock[Origin] \in {NoLock, k} /\ infoLock[k] \in {NoLock, k}
        BY Zenon, <1>3, <2>3 DEF MayLock
      <3>3. /\ infoLock' \in Locks
            /\ \A l \in Clusters : infoLock'[l] = NoInfo <=> infoLock[l] = NoInfo
        BY Zenon, <1>1, <1>2, <3>1, <3>2, Ids DEF JobTypes, Locks
      <3>4. FedRest' /\ around' = around /\ \A l \in Clusters : Owner(l)' => Owner(l)
        BY ZenonT(30), <1>2, <1>3, <1>4, <1>6, <2>1, <2>2, <3>3, IdleGood, AttemptKept
      <3>5. ~Owner(k)'
        BY Zenon, <1>1, <1>2, <1>3, <1>6 DEF Owner, SchedTypes, Idle
      <3>6. ASSUME ~around, NEW l \in Clusters, Owner(l)'
            PROVE  FALSE
        <4>1. infoLock[Origin] \in {l, NoInfo}
          BY <1>1, <3>4, <3>6, Zenon DEF OwnInv
        <4> QED
          BY Zenon, <3>2, <3>5, <3>6, <4>1, Ids
      <3>7. OwnInv'
        BY Zenon, <3>4, <3>6, OwnNone
      <3> QED
        BY Zenon, <3>4, <3>7 DEF FedRest, FedInv
    <2>4. CASE ~(Reachable(k, Origin) /\ MayLock(Origin, k))
      <3>1. /\ infoLock' \in Locks /\ infoLock'[Origin] = infoLock[Origin]
            /\ \A l \in Clusters : infoLock'[l] = NoInfo <=> infoLock[l] = NoInfo
        BY SMTT(30), <1>1, <1>2, <1>6, <2>4, LockIs
      <3> QED
        BY ZenonT(30), <1>2, <1>3, <1>4, <1>6, <2>1, <2>2, <3>1, IdleGood, AttemptOwn
    <2> QED
      BY Zenon, <2>3, <2>4
  <1> QED
    BY <1>5, <1>6, Zenon DEF JobUnlock

\* fed_mgr_job_allocate: the one submission
LEMMA SubmitStepInv ==
  ASSUME FedInv, Submit
  PROVE  FedInv'
  <1>1. /\ TypeOK /\ CaseInv /\ RecordInv /\ SchedInv /\ SubmitInv /\ OwnInv
        /\ JobTypes /\ net \in Nets /\ LinkTypes /\ SchedTypes /\ FlagTypes /\ CaseOK(case)
    BY Zenon, FedParts
  <1>2. Origin \in Clusters
    BY Zenon, Ids
  <1>3. /\ ~submitted /\ sched[Origin].pc = "idle" /\ submitted' = TRUE
        /\ job' = [job EXCEPT ![Origin] = "PENDING"]
        /\ infoLock' = [infoLock EXCEPT ![Origin] = NoLock]
        /\ active' = Clusters
        /\ net' = Outdated(Put(net, Origin, Others(Origin), Msg("SUBMIT")), Origin)
        /\ UNCHANGED <<result, recLock, linkVars, up, case, around, sched>>
    BY Zenon DEF Submit, Free
  <1>4. \A a, b \in Clusters : /\ job[a] = "NONE" /\ ~HasRun(net[a][Origin])
                               /\ ~HasSubmit(net[a][b]) /\ OneSubmit(net[a][b])
    BY Zenon, <1>1, <1>3 DEF SubmitInv
  <1> DEFINE m == Msg("SUBMIT")
             p == Put(net, Origin, Others(Origin), m)
  <1>5. m \in Messages /\ m.t = "SUBMIT" /\ ~Tells(m)
    BY Zenon, PlainMsg
  <1> HIDE DEF m
  <1>6. /\ p \in Nets
        /\ \A a, b \in Clusters :
             p[a][b] = IF a = Origin /\ b \in Others(Origin) THEN Append(net[a][b], m) ELSE net[a][b]
    BY SMTT(30), <1>1, <1>2, <1>5, PutIs
  <1>7. net' = Outdated(p, Origin)
    BY Zenon, <1>3 DEF m
  <1> HIDE DEF p
  <1>8. Hushed(p, net')
    BY Zenon, <1>2, <1>6, <1>7, OutdatedQuiet
  <1>9. ASSUME NEW a \in Clusters, NEW b \in Clusters
        PROVE  /\ OneSubmit(p[a][b])
               /\ HasSubmit(p[a][b]) => a = Origin /\ b # Origin
               /\ ~HasRun(p[a][Origin])
    <2>1. net[a][b] \in Seq(Messages)
      BY Zenon, <1>1 DEF Nets
    <2>2. p[a][Origin] = net[a][Origin]
      BY Zenon, <1>2, <1>6 DEF Others
    <2> QED
      BY SMTT(30), <1>4, <1>5, <1>6, <2>1, <2>2, AppendAny DEF Others
  <1>10. ASSUME NEW a \in Clusters, NEW b \in Clusters
         PROVE  /\ OneSubmit(net'[a][b])
                /\ HasSubmit(net'[a][b]) => a = Origin /\ b # Origin
                /\ ~HasRun(net'[a][Origin])
    BY Zenon, <1>2, <1>8, <1>9 DEF Hushed, Quiet
  <1>11. JobTypes' /\ \A l \in Clusters : job'[l] = IF l = Origin THEN "PENDING" ELSE "NONE"
    BY Zenon, <1>1, <1>2, <1>3, <1>4 DEF JobTypes, JobStates
  <1>12. SubmitInv'
    BY Zenon, <1>2, <1>3, <1>10, <1>11 DEF SubmitInv
  <1>13. RecordInv'
    BY Zenon, <1>1, <1>2, <1>3, <1>4, <1>11, Ids DEF RecordInv, JobTypes
  <1>14. \A l \in Clusters : sched[l].pc = "idle"
    BY Zenon, <1>1, <1>4 DEF SchedInv
  <1>15. SchedInv'
    BY Zenon, <1>1, <1>3, <1>14 DEF SchedInv
  <1>16. OwnInv'
    <2>1. \A l \in Clusters : ~Owner(l)'
      BY SMTT(30), <1>2, <1>3, <1>10, <1>11, <1>14 DEF Owner
    <2> QED
      BY Zenon, <2>1, OwnNone
  <1>17. TypeOK' /\ CaseInv'
    <2>1. LinkTypes' /\ CaseInv' /\ CaseOK(case)'
      BY Zenon, <1>3, CalmLinks
    <2>2. FlagTypes' /\ SchedTypes' /\ net' \in Nets
      BY Zenon, <1>1, <1>3, <1>8 DEF FlagTypes, SchedTypes, Hushed
    <2> QED
      BY ZenonT(30), <1>11, <2>1, <2>2
      DEF TypeOK, JobTypes, Nets, LinkTypes, ConnTypes, SchedTypes, FlagTypes, CaseOK
  <1> QED
    BY Zenon, <1>12, <1>13, <1>15, <1>16, <1>17 DEF FedInv

-----------------------------------------------------------------------------
(* The handlers of the messages.                                           *)

\* The message that k takes from s, and the queues without it
Taken(k, s) == Head(net[s][k])
Left(k, s) == [net EXCEPT ![s][k] = Tail(@)]

\* What a handler leaves to the thread that calls it
LEMMA HandlerFrame ==
  ASSUME FedInv, NEW k \in Clusters, NEW s \in Clusters, HandleUpdate(k, s)
  PROVE  /\ sched[k].pc = "idle" /\ UNCHANGED <<sched, submitted, around, up>>
         /\ LinkTypes' /\ Hushed(net, Left(k, s)) /\ Taken(k, s) \in Messages
         /\ Taken(k, s).t # "SUBMIT" => CaseInv' /\ CaseOK(case)'
         /\ Taken(k, s).t = "SUBMIT" => /\ HasSubmit(net[s][k])
                                        /\ ~HasSubmit(Left(k, s)[s][k])
         /\ Tells(Taken(k, s)) => HasRun(net[s][k])
  <1>1. /\ sched[k].pc = "idle" /\ UNCHANGED <<sched, submitted, around, up>>
        /\ UNCHANGED <<conn, fini>> /\ net[s][k] # <<>>
    BY Zenon DEF HandleUpdate, Free
  <1>2. net \in Nets /\ LinkTypes /\ CaseInv /\ CaseOK(case) /\ SubmitInv
    BY Zenon, FedParts
  <1>3. net[s][k] \in Seq(Messages) /\ OneSubmit(net[s][k])
    BY Zenon, <1>2 DEF Nets, SubmitInv
  <1>4. /\ Hushed(net, Left(k, s)) /\ Left(k, s)[s][k] = Tail(net[s][k])
    BY Zenon, <1>1, <1>2, TakenQuiet DEF Left
  <1>5. /\ Taken(k, s) \in Messages
        /\ Taken(k, s).t = "SUBMIT" => HasSubmit(net[s][k]) /\ ~HasSubmit(Tail(net[s][k]))
        /\ Tells(Taken(k, s)) => HasRun(net[s][k])
    BY Zenon, <1>1, <1>3, TailQuiet DEF Taken
  <1>6. LinkTypes'
    <2>1. recvd' \subseteq recvd \cup {<<k, s>>} /\ sent' \subseteq sent \cup {<<k, s>>}
      BY Zenon DEF HandleUpdate
    <2> QED
      BY SMTT(30), <1>1, <1>2, <2>1 DEF LinkTypes, ConnTypes
  <1>7. Taken(k, s).t # "SUBMIT" => case' = case
    BY Zenon DEF HandleUpdate, Taken
  <1> QED
    BY ZenonT(30), <1>1, <1>2, <1>4, <1>5, <1>6, <1>7 DEF CaseInv, CaseOK

\* A handler that changes the record in a way of RecordStep
LEMMA HandlerRecord ==
  ASSUME FedInv, NEW k \in Clusters, NEW s \in Clusters, HandleUpdate(k, s),
         CaseInv', CaseOK(case)',
         JobTypes', Hushed(net, net'),
         \A l \in Clusters \ {k} : job'[l] = job[l] /\ infoLock'[l] = infoLock[l],
         job'[k] = "NONE" <=> infoLock'[k] = NoInfo,
         job[k] = "NONE" => job'[k] = "NONE",
         job'[k] = "PENDING" => job[k] = "PENDING",
         job'[k] \in Live => job[k] \in Live
  PROVE  /\ RecordStep(k)
         /\ infoLock'[Origin] \in {infoLock[Origin], NoInfo} => FedInv'
  <1>1. RecordStep(k)
    BY ZenonT(30), HandlerFrame DEF RecordStep
  <1> QED
    BY Zenon, <1>1, RecordOwn

\* The records do not change.
LEMMA SameRecords ==
  ASSUME FedInv, UNCHANGED <<job, result, recLock, infoLock>>, active' \subseteq Clusters,
         NEW k \in Clusters
  PROVE  /\ JobTypes'
         /\ \A l \in Clusters \ {k} : job'[l] = job[l] /\ infoLock'[l] = infoLock[l]
         /\ job'[k] = "NONE" <=> infoLock'[k] = NoInfo
         /\ job'[k] = job[k]
         /\ infoLock' = infoLock
  BY Zenon, FedParts DEF JobTypes, RecordInv

\* _handle_fed_job_submission
LEMMA SubmissionInv ==
  ASSUME FedInv, NEW k \in Clusters, NEW s \in Clusters, HandleUpdate(k, s),
         Taken(k, s).t = "SUBMIT", HandleSubmission(k, s, Left(k, s))
  PROVE  FedInv'
  <1> DEFINE n == Left(k, s)
  <1>1. /\ TypeOK /\ CaseInv /\ RecordInv /\ SchedInv /\ SubmitInv /\ OwnInv
        /\ JobTypes /\ net \in Nets /\ SchedTypes /\ FlagTypes /\ CaseOK(case)
    BY Zenon, FedParts
  <1>2. /\ sched[k].pc = "idle" /\ UNCHANGED <<sched, submitted, around, up>>
        /\ LinkTypes' /\ Hushed(net, n) /\ HasSubmit(net[s][k]) /\ ~HasSubmit(n[s][k])
    BY Zenon, HandlerFrame
  <1>3. /\ s = Origin /\ k # Origin /\ submitted /\ job[k] = "NONE" /\ ~HasRun(net[k][Origin])
        /\ Origin \in Clusters
    BY ZenonT(30), <1>1, <1>2, Ids DEF SubmitInv
  <1>4. n \in Nets
    BY Zenon, <1>2 DEF Hushed
  <1> HIDE DEF n
  <1>5. CASE /\ job' = [job EXCEPT ![k] = "PENDING"]
             /\ infoLock' = [infoLock EXCEPT ![k] = NoLock]
             /\ recLock' = [recLock EXCEPT ![k] = NoLock]
             /\ net' = Outdated(n, k)
             /\ UNCHANGED <<case, result, active>>
    <2>1. Hushed(n, net')
      BY Zenon, <1>4, <1>5, OutdatedQuiet
    <2>2. Hushed(net, net')
      BY ZenonT(30), <1>1, <1>2, <2>1, HushedBasics
    <2>3. ~HasSubmit(net'[Origin][k])
      BY Zenon, <1>2, <1>3, <2>1 DEF Hushed, Quiet
    <2>4. /\ JobTypes'
          /\ \A l \in Clusters : /\ job'[l] = IF l = k THEN "PENDING" ELSE job[l]
                                 /\ infoLock'[l] = IF l = k THEN NoLock ELSE infoLock[l]
      BY Zenon, <1>1, <1>5 DEF JobTypes, JobStates
    <2>5. RecordInv'
      BY Zenon, <1>1, <2>4, Ids DEF RecordInv
    <2>6. SchedInv'
      BY ZenonT(30), <1>1, <1>2, <2>4 DEF SchedInv
    <2>7. \A a, b \in Clusters :
            /\ HasSubmit(net'[a][b]) => HasSubmit(net[a][b])
            /\ HasRun(net'[a][b]) => HasRun(net[a][b])
            /\ OneSubmit(net[a][b]) => OneSubmit(net'[a][b])
      BY Zenon, <2>2 DEF Hushed, Quiet
    <2>8. SubmitInv'
      <3>1. ASSUME NEW a \in Clusters, NEW b \in Clusters
            PROVE  /\ OneSubmit(net'[a][b])
                   /\ HasSubmit(net'[a][b]) =>
                        /\ a = Origin /\ b # Origin /\ submitted'
                        /\ job'[b] = "NONE" /\ ~HasRun(net'[b][Origin])
        BY SMTT(30), <1>1, <1>2, <1>3, <2>3, <2>4, <2>7 DEF SubmitInv
      <3>2. ASSUME NEW l \in Clusters
            PROVE  /\ ~submitted' => job'[l] = "NONE" /\ ~HasRun(net'[l][Origin])
                   /\ job'[l] = "PENDING" => ~HasRun(net'[l][Origin])
        BY Zenon, <1>1, <1>2, <1>3, <2>4, <2>7 DEF SubmitInv
      <3> QED
        BY Zenon, <3>1, <3>2 DEF SubmitInv
    <2>9. \A l \in Clusters : Owner(l)' => Owner(l)
      BY ZenonT(30), <1>2, <1>3, <2>4, <2>7 DEF Owner
    <2>10. OwnInv'
      BY ZenonT(30), <1>1, <1>2, <1>3, <2>4, <2>9, OwnKept
    <2>11. TypeOK' /\ CaseInv'
      <3>1. FlagTypes' /\ SchedTypes' /\ net' \in Nets /\ CaseInv' /\ CaseOK(case)'
        BY ZenonT(30), <1>1, <1>2, <1>5, <2>2 DEF FlagTypes, SchedTypes, Hushed, CaseInv, CaseOK
      <3> QED
        BY ZenonT(30), <1>2, <2>4, <3>1
        DEF TypeOK, JobTypes, Nets, LinkTypes, ConnTypes, SchedTypes, FlagTypes, CaseOK
    <2> QED
      BY Zenon, <2>5, <2>6, <2>8, <2>10, <2>11 DEF FedInv
  <1>6. CASE /\ case.refusals > 0
             /\ case' = [case EXCEPT !.refusals = @ - 1]
             /\ Unlink(k)
             /\ net' = Put(n, k, {s}, Msg("SUBMIT_RESP"))
             /\ UNCHANGED <<result, active>>
    <2>1. Hushed(net, net')
      BY SMTT(30), <1>1, <1>2, <1>4, <1>6, PutQuiet, PlainMsg, HushedBasics
    <2>2. CaseInv' /\ CaseOK(case)'
      <3>1. case' \in CaseTypes /\ CaseOK(case')
        BY Zenon, <1>1, <1>6, CaseCounts DEF CaseInv
      <3> QED
        BY Zenon, <3>1 DEF CaseInv, CaseOK
    <2>3. /\ JobTypes' /\ job'[k] = "NONE" /\ infoLock'[k] = NoInfo
          /\ \A l \in Clusters \ {k} : job'[l] = job[l] /\ infoLock'[l] = infoLock[l]
      BY Zenon, <1>1, <1>6, UnlinkIs
    <2> QED
      BY Zenon, <1>3, <2>1, <2>2, <2>3, StatesApart, HandlerRecord
  <1> QED
    BY <1>5, <1>6, Zenon DEF HandleSubmission, n

\* _handle_fed_job_remove_active_sib_bit
LEMMA SubmitRespInv ==
  ASSUME FedInv, NEW k \in Clusters, NEW s \in Clusters, HandleUpdate(k, s),
         Taken(k, s).t = "SUBMIT_RESP", HandleSubmitResp(k, s, Left(k, s))
  PROVE  FedInv'
  <1>1. /\ UNCHANGED <<job, result, recLock, infoLock>> /\ active' \subseteq Clusters
        /\ net' = Left(k, s)
    BY Zenon, FedParts DEF HandleSubmitResp, JobTypes
  <1>2. Hushed(net, net') /\ CaseInv' /\ CaseOK(case)'
    BY Zenon, <1>1, HandlerFrame
  <1> QED
    BY Zenon, <1>1, <1>2, SameRecords, HandlerRecord

\* fed_mgr_job_revoke
LEMMA RevokeIs ==
  ASSUME FedInv, NEW k \in Clusters, JobRevoke(k), active' = active, job[k] # "NONE"
  PROVE  /\ JobTypes'
         /\ \A l \in Clusters \ {k} : job'[l] = job[l] /\ infoLock'[l] = infoLock[l]
         /\ job'[k] = "NONE" <=> infoLock'[k] = NoInfo
         /\ job'[k] # "PENDING" /\ job'[k] \notin Live
         /\ infoLock'[Origin] \in {infoLock[Origin], NoInfo}
  <1>1. JobTypes /\ RecordInv
    BY Zenon, FedParts
  <1>2. CASE job[k] = "DONE" /\ UNCHANGED <<job, result, infoLock, recLock>>
    BY Zenon, <1>1, <1>2, StatesApart DEF JobTypes, RecordInv
  <1>3. CASE /\ job' = [job EXCEPT ![k] = "DONE"]
             /\ result' = [result EXCEPT ![k] = "CANCELLED"]
             /\ UNCHANGED <<infoLock, recLock>>
    <2>1. JobTypes' /\ \A l \in Clusters : job'[l] = IF l = k THEN "DONE" ELSE job[l]
      BY Zenon, <1>1, <1>3 DEF JobTypes, JobStates, Results
    <2> QED
      BY Zenon, <1>1, <1>3, <2>1, StatesApart DEF RecordInv
  <1>4. CASE Unlink(k) /\ UNCHANGED result
    BY Zenon, <1>1, <1>4, UnlinkIs, StatesApart, Ids
  <1> QED
    BY <1>2, <1>3, <1>4, Zenon DEF JobRevoke

\* _handle_fed_job_complete
LEMMA CompleteInv ==
  ASSUME FedInv, NEW k \in Clusters, NEW s \in Clusters, HandleUpdate(k, s),
         Taken(k, s).t = "COMPLETE", HandleComplete(k, Left(k, s))
  PROVE  FedInv'
  <1> DEFINE n == Left(k, s)
  <1>1. Hushed(net, n) /\ CaseInv' /\ CaseOK(case)' /\ net \in Nets /\ active \subseteq Clusters
    BY Zenon, HandlerFrame, FedParts DEF JobTypes
  <1>2. n \in Nets
    BY Zenon, <1>1 DEF Hushed
  <1> HIDE DEF n
  <1>3. CASE UNCHANGED jobVars /\ (net' = Put(n, k, {k}, Msg("CANCEL")) \/ net' = n)
    <2>1. Hushed(net, net')
      BY SMTT(30), <1>1, <1>2, <1>3, PutQuiet, PlainMsg, HushedBasics
    <2>2. UNCHANGED <<job, result, recLock, infoLock>> /\ active' \subseteq Clusters
      BY Zenon, <1>1, <1>3 DEF jobVars
    <2> QED
      BY ZenonT(30), <1>1, <2>1, <2>2, SameRecords, HandlerRecord
  <1>4. CASE job[k] # "NONE" /\ JobRevoke(k) /\ net' = n /\ UNCHANGED active
    BY Zenon, <1>1, <1>4, RevokeIs, HandlerRecord
  <1> QED
    BY <1>3, <1>4, Zenon DEF HandleComplete, n

\* _handle_fed_job_start
LEMMA StartInv ==
  ASSUME FedInv, NEW k \in Clusters, NEW s \in Clusters, HandleUpdate(k, s),
         Taken(k, s).t = "START", HandleStart(k, Left(k, s))
  PROVE  FedInv'
  <1> DEFINE n == Left(k, s)
  <1>1. /\ Hushed(net, n) /\ CaseInv' /\ CaseOK(case)' /\ net \in Nets
        /\ JobTypes /\ RecordInv
    BY Zenon, HandlerFrame, FedParts
  <1>2. n \in Nets
    BY Zenon, <1>1 DEF Hushed
  <1> HIDE DEF n
  <1>3. CASE net' = n /\ UNCHANGED jobVars
    <2>1. UNCHANGED <<job, result, recLock, infoLock>> /\ active' \subseteq Clusters
      BY Zenon, <1>1, <1>3 DEF jobVars, JobTypes
    <2> QED
      BY Zenon, <1>1, <1>3, <2>1, SameRecords, HandlerRecord
  <1>4. CASE /\ job[k] # "NONE" /\ FedJobStartRevoke(n, k, infoLock[k])
             /\ job' = [job EXCEPT ![k] = IF infoLock[k] = k \/ @ = "DONE" THEN @ ELSE "REVOKED"]
             /\ UNCHANGED <<result, infoLock>>
    <2>1. /\ recLock' = [recLock EXCEPT ![k] = infoLock[k]]
          /\ active' = {infoLock[k]} \ {NoLock}
          /\ net' = RevokeSiblingJobs(n, k, active \ {infoLock[k]})
      BY Zenon, <1>4 DEF FedJobStartRevoke
    <2>2. infoLock[k] \in Clusters \cup {NoLock}
      BY Zenon, <1>1, <1>4 DEF JobTypes, RecordInv
    <2>3. Hushed(net, net')
      BY SMTT(30), <1>1, <1>2, <2>1, RevokeQuiet, HushedBasics
    <2>4. job'[k] = job[k] \/ job'[k] = "REVOKED"
      BY Zenon, <1>1, <1>4 DEF JobTypes
    <2>5. job' \in [Clusters -> JobStates] /\ \A l \in Clusters \ {k} : job'[l] = job[l]
      BY Zenon, <1>1, <1>4 DEF JobTypes, JobStates
    <2>6. JobTypes'
      BY ZenonT(30), <1>1, <1>4, <2>1, <2>2, <2>5 DEF JobTypes
    <2> QED
      BY Zenon, <1>1, <1>4, <2>3, <2>4, <2>5, <2>6, StatesApart, HandlerRecord DEF RecordInv
  <1> QED
    BY <1>3, <1>4, Zenon DEF HandleStart, n

\* _handle_fed_job_cancel
LEMMA CancelInv ==
  ASSUME FedInv, NEW k \in Clusters, NEW s \in Clusters, HandleUpdate(k, s),
         Taken(k, s).t \in {"CANCEL", "CANCEL_NO_SIBS"},
         NEW noSibs \in BOOLEAN, HandleCancel(k, noSibs, Left(k, s))
  PROVE  FedInv'
  <1>1. Hushed(net, Left(k, s)) /\ CaseInv' /\ CaseOK(case)'
    BY Zenon, HandlerFrame
  <1>2. JobSignal(k, noSibs, Left(k, s)) /\ UNCHANGED <<recLock, infoLock, active>>
    BY Zenon DEF HandleCancel
  <1> QED
    BY ZenonT(30), <1>1, <1>2, SignalIs, HandlerRecord

\* _handle_fed_send_job_sync: the reporter of a running job is its owner.
LEMMA SendSyncInv ==
  ASSUME FedInv, NEW k \in Clusters, NEW s \in Clusters, HandleUpdate(k, s),
         Taken(k, s).t = "SEND_SYNC", HandleSendSync(k, s, Left(k, s))
  PROVE  FedInv'
  <1> DEFINE n == Left(k, s)
             m == [t |-> "SYNC", job |-> job[k], result |-> result[k]]
  <1>1. /\ TypeOK /\ CaseInv /\ RecordInv /\ SchedInv /\ SubmitInv /\ OwnInv
        /\ JobTypes /\ net \in Nets /\ SchedTypes /\ FlagTypes
    BY Zenon, FedParts
  <1>2. /\ Hushed(net, n) /\ LinkTypes' /\ CaseInv' /\ CaseOK(case)'
        /\ UNCHANGED <<sched, submitted, around, up>>
    BY ZenonT(30), HandlerFrame
  <1>3. n \in Nets
    BY ZenonT(30), <1>2 DEF Hushed
  <1>4. net' = Put(n, k, {s}, m) /\ UNCHANGED jobVars
    BY ZenonT(30) DEF HandleSendSync
  <1>5. m \in Messages /\ m.t = "SYNC" /\ (Tells(m) <=> job[k] \in Live)
    BY ZenonT(30), <1>1 DEF JobTypes, Messages, Tells, Live
  <1> HIDE DEF n, m
  <1>6. /\ net' \in Nets
        /\ \A a, b \in Clusters :
             net'[a][b] = IF a = k /\ b \in {s} THEN Append(n[a][b], m) ELSE n[a][b]
    BY SMTT(30), <1>3, <1>4, <1>5, PutIs
  <1>7. ASSUME NEW a \in Clusters, NEW b \in Clusters
        PROVE  /\ HasSubmit(net'[a][b]) => HasSubmit(net[a][b])
               /\ HasRun(net'[a][b]) => HasRun(net[a][b]) \/ (a = k /\ job[k] \in Live)
               /\ OneSubmit(net[a][b]) => OneSubmit(net'[a][b])
    <2>1. /\ HasSubmit(n[a][b]) => HasSubmit(net[a][b])
          /\ HasRun(n[a][b]) => HasRun(net[a][b])
          /\ OneSubmit(net[a][b]) => OneSubmit(n[a][b])
      BY Zenon, <1>2 DEF Hushed, Quiet
    <2>2. n[a][b] \in Seq(Messages)
      BY Zenon, <1>3 DEF Nets
    <2> QED
      BY SMTT(30), <1>5, <1>6, <2>1, <2>2, AppendAny
  <1>8. job' = job /\ infoLock' = infoLock /\ Origin \in Clusters
    BY Zenon, <1>4, Ids DEF jobVars
  <1>9. SubmitInv'
    <2>1. ASSUME NEW a \in Clusters, NEW b \in Clusters
          PROVE  /\ OneSubmit(net'[a][b])
                 /\ HasSubmit(net'[a][b]) =>
                      /\ a = Origin /\ b # Origin /\ submitted'
                      /\ job'[b] = "NONE" /\ ~HasRun(net'[b][Origin])
      BY SMTT(30), <1>1, <1>2, <1>7, <1>8, StatesApart DEF SubmitInv
    <2>2. ASSUME NEW l \in Clusters
          PROVE  /\ ~submitted' => job'[l] = "NONE" /\ ~HasRun(net'[l][Origin])
                 /\ job'[l] = "PENDING" => ~HasRun(net'[l][Origin])
      BY SMTT(30), <1>1, <1>2, <1>7, <1>8, StatesApart DEF SubmitInv
    <2> QED
      BY ZenonT(30), <2>1, <2>2 DEF SubmitInv
  <1>10. \A l \in Clusters : Owner(l)' => Owner(l)
    BY Zenon, <1>2, <1>7, <1>8 DEF Owner, Live
  <1>11. OwnInv'
    BY Zenon, <1>1, <1>2, <1>8, <1>10, OwnKept
  <1>12. RecordInv' /\ SchedInv'
    BY Zenon, <1>1, <1>2, <1>8 DEF RecordInv, SchedInv
  <1>13. TypeOK'
    <2>1. FlagTypes' /\ SchedTypes' /\ JobTypes'
      BY Zenon, <1>1, <1>2, <1>4 DEF FlagTypes, SchedTypes, JobTypes, jobVars
    <2> QED
      BY Zenon, <1>2, <1>6, <2>1
      DEF TypeOK, JobTypes, Nets, LinkTypes, ConnTypes, SchedTypes, FlagTypes, CaseOK
  <1> QED
    BY Zenon, <1>2, <1>9, <1>11, <1>12, <1>13 DEF FedInv

\* A record that ends or is revoked in one field
LEMMA EndsIs ==
  ASSUME FedInv, NEW k \in Clusters, job[k] # "NONE",
         NEW q \in {"DONE", "REVOKED", "COMPLETING"}, q = "COMPLETING" => job[k] = "RUNNING",
         job' = [job EXCEPT ![k] = q],
         result' \in [Clusters -> Results],
         recLock' \in [Clusters -> Clusters \cup {NoLock}],
         active' \subseteq Clusters,
         infoLock' \in Locks, \A l \in Clusters \ {k} : infoLock'[l] = infoLock[l],
         infoLock'[k] # NoInfo
  PROVE  /\ JobTypes'
         /\ \A l \in Clusters \ {k} : job'[l] = job[l] /\ infoLock'[l] = infoLock[l]
         /\ job'[k] = "NONE" <=> infoLock'[k] = NoInfo
         /\ job'[k] # "PENDING"
         /\ job'[k] \in Live => job[k] \in Live
  <1>1. JobTypes
    BY Zenon, FedParts
  <1>2. job' \in [Clusters -> JobStates] /\ \A l \in Clusters : job'[l] = IF l = k THEN q ELSE job[l]
    BY Zenon, <1>1 DEF JobTypes, JobStates
  <1>3. JobTypes'
    BY Zenon, <1>2 DEF JobTypes, Locks
  <1> QED
    BY Zenon, <1>2, <1>3, StatesApart

-----------------------------------------------------------------------------
(* Snapshots, and every step.                                              *)

\* _sync_jobs: an owner that is reported running is the one the origin's lock
\* names already.
LEMMA SyncInv ==
  ASSUME FedInv, NEW k \in Clusters, NEW s \in Clusters, HandleUpdate(k, s),
         Taken(k, s).t = "SYNC", HandleSync(k, s, Taken(k, s), Left(k, s))
  PROVE  FedInv'
  <1> DEFINE n == Left(k, s)
             m == Taken(k, s)
  <1>1. /\ TypeOK /\ RecordInv /\ OwnInv /\ JobTypes /\ net \in Nets
    BY Zenon, FedParts
  <1>2. /\ Hushed(net, n) /\ CaseInv' /\ CaseOK(case)'
        /\ Tells(m) => HasRun(net[s][k])
    BY ZenonT(30), HandlerFrame
  <1>3. n \in Nets /\ Origin \in Clusters
    BY Zenon, <1>2, Ids DEF Hushed
  <1>4. m.t = "SYNC"
    BY Zenon
  <1>5. HandleSync(k, s, m, n)
    BY Zenon
  <1> HIDE DEF n, m
  <1>6. CASE net' = n /\ UNCHANGED jobVars
    <2>1. UNCHANGED <<job, result, recLock, infoLock>> /\ active' \subseteq Clusters
      BY Zenon, <1>1, <1>6 DEF jobVars, JobTypes
    <2> QED
      BY Zenon, <1>2, <1>6, <2>1, SameRecords, HandlerRecord
  <1>7. CASE Reconcile(k, s, m, n) /\ job[k] \in {"PENDING", "REVOKED", "RUNNING"}
    <2>1. job[k] # "NONE" /\ infoLock[k] # NoInfo
      BY Zenon, <1>1, <1>7 DEF RecordInv
    <2>2. /\ infoLock \in Locks /\ recLock \in [Clusters -> Clusters \cup {NoLock}]
          /\ active \subseteq Clusters /\ result \in [Clusters -> Results]
      BY Zenon, <1>1 DEF JobTypes, Locks
    <2>3. [result EXCEPT ![k] = "CANCELLED"] \in [Clusters -> Results]
      BY Zenon, <2>2 DEF Results
    <2>4. ASSUME net' = n, JobRevoke(k), active' = active
          PROVE  FedInv'
      BY ZenonT(30), <1>2, <2>1, <2>4, RevokeIs, HandlerRecord
    <2>5. ASSUME net' = n, NEW q \in {"DONE", "COMPLETING"}, q = "COMPLETING" => job[k] = "RUNNING",
                 job' = [job EXCEPT ![k] = q],
                 result' = [result EXCEPT ![k] = "CANCELLED"],
                 UNCHANGED <<recLock, infoLock>>, active' \subseteq Clusters
          PROVE  FedInv'
      <3>1. /\ JobTypes'
            /\ \A l \in Clusters \ {k} : job'[l] = job[l] /\ infoLock'[l] = infoLock[l]
            /\ job'[k] = "NONE" <=> infoLock'[k] = NoInfo
            /\ job'[k] # "PENDING"
            /\ job'[k] \in Live => job[k] \in Live
        BY Zenon, <2>1, <2>2, <2>3, <2>5, EndsIs
      <3> QED
        BY Zenon, <1>2, <2>1, <2>5, <3>1, HandlerRecord
    <2>6. ASSUME UNCHANGED <<job, result, recLock, infoLock>>, active' \subseteq Clusters,
                 Hushed(net, net')
          PROVE  FedInv'
      BY Zenon, <1>2, <2>6, SameRecords, HandlerRecord
    <2>7. CASE ReconcileFromOrigin(k, m) /\ net' = n
      <3>1. CASE job[k] = "RUNNING"
        BY Zenon, <2>2, <2>5, <2>7, <3>1 DEF ReconcileFromOrigin
      <3>2. CASE job[k] # "RUNNING"
        BY Zenon, <2>2, <2>5, <2>7, <3>2 DEF ReconcileFromOrigin
      <3> QED
        BY Zenon, <3>1, <3>2
    <2>8. CASE ReconcileShared(k, m) /\ net' = n
      BY Zenon, <2>2, <2>4, <2>5, <2>8 DEF ReconcileShared
    <2>9. CASE ReconcileMissing(k, s) /\ net' = n
      BY Zenon, <1>2, <2>2, <2>4, <2>6, <2>9 DEF ReconcileMissing
    <2>10. CASE ReconcileHolder(k, s, m) /\ net' = n
      BY Zenon, <2>4, <2>10 DEF ReconcileHolder
    <2>11. CASE net' = RevokeSiblingJobs(n, k, {s}) /\ UNCHANGED jobVars
      <3>1. Hushed(net, net')
        BY Zenon, <1>1, <1>2, <1>3, <2>11, RevokeQuiet, HushedBasics
      <3> QED
        BY Zenon, <2>2, <2>6, <2>11, <3>1 DEF jobVars
    <2>12. CASE k = Origin /\ ReconcileUnlocked(k, s, m, n)
      <3>1. CASE /\ job' = [job EXCEPT ![k] = "DONE"]
                 /\ result' = [result EXCEPT ![k] = "CANCELLED"]
                 /\ active' = active \cup {s} /\ net' = n
                 /\ UNCHANGED <<infoLock, recLock>>
        BY Zenon, <2>2, <2>5, <3>1
      <3>2. CASE active' = active \cup {s} /\ net' = n /\ UNCHANGED <<job, result, infoLock, recLock>>
        BY Zenon, <1>2, <2>2, <2>6, <3>2
      <3>3. CASE /\ Runs(m) /\ infoLock' = [infoLock EXCEPT ![k] = s]
                 /\ FedJobStartRevoke(n, k, s)
                 /\ job' = [job EXCEPT ![k] = "REVOKED"]
                 /\ UNCHANGED result
        <4>1. /\ recLock' = [recLock EXCEPT ![k] = s] /\ active' = {s} \ {NoLock}
              /\ net' = RevokeSiblingJobs(n, k, active \ {s})
          BY Zenon, <3>3 DEF FedJobStartRevoke
        <4>2. Hushed(net, net')
          BY SMTT(30), <1>1, <1>2, <1>3, <4>1, RevokeQuiet, HushedBasics
        <4>3. /\ infoLock' \in Locks /\ infoLock'[k] = s
              /\ \A l \in Clusters \ {k} : infoLock'[l] = infoLock[l]
          BY Zenon, <2>2, <3>3 DEF Locks
        <4>4. recLock' \in [Clusters -> Clusters \cup {NoLock}] /\ active' \subseteq Clusters
          BY Zenon, <2>2, <4>1
        <4>5. infoLock'[k] # NoInfo
          BY Zenon, <4>3, Ids
        <4>6. /\ JobTypes'
              /\ \A l \in Clusters \ {k} : job'[l] = job[l] /\ infoLock'[l] = infoLock[l]
              /\ job'[k] = "NONE" <=> infoLock'[k] = NoInfo
              /\ job'[k] # "PENDING"
              /\ job'[k] \in Live => job[k] \in Live
          BY Zenon, <2>1, <2>2, <3>3, <4>3, <4>4, <4>5, EndsIs
        <4>7. RecordStep(k)
          BY Zenon, <1>2, <2>1, <4>2, <4>6, HandlerRecord
        <4>8. FedRest' /\ around' = around /\ \A l \in Clusters : Owner(l)' => Owner(l)
          BY Zenon, <4>7, RecordKept
        <4>9. Owner(s)
          BY ZenonT(30), <1>2, <1>4, <2>12, <3>3 DEF Owner, Tells, Runs
        <4>10. ~around' => infoLock'[Origin] = infoLock[Origin]
          <5>1. ~around => infoLock[Origin] \in {s, NoInfo}
            BY <1>1, <4>9, Zenon DEF OwnInv
          <5> QED
            BY Zenon, <2>1, <2>12, <4>3, <4>8, <5>1
        <4>11. OwnInv'
          BY Zenon, <1>1, <4>8, <4>10, OwnKept
        <4> QED
          BY Zenon, <4>8, <4>11 DEF FedRest, FedInv
      <3> QED
        BY <2>12, <3>1, <3>2, <3>3, Zenon DEF ReconcileUnlocked
    <2> QED
      BY <1>7, <2>7, <2>8, <2>9, <2>10, <2>11, <2>12, Zenon DEF Reconcile
  <1> QED
    BY <1>5, <1>6, <1>7, Zenon DEF HandleSync

\* _fed_job_update_thread
LEMMA HandleUpdateInv ==
  ASSUME FedInv, NEW k \in Clusters, NEW s \in Clusters, HandleUpdate(k, s)
  PROVE  FedInv'
  <1> DEFINE m == Taken(k, s)
             n == Left(k, s)
  <1>1. \/ m.t = "SUBMIT" /\ HandleSubmission(k, s, n)
        \/ m.t = "SUBMIT_RESP" /\ HandleSubmitResp(k, s, n)
        \/ m.t = "COMPLETE" /\ HandleComplete(k, n)
        \/ m.t = "START" /\ HandleStart(k, n)
        \/ m.t = "CANCEL" /\ HandleCancel(k, FALSE, n)
        \/ m.t = "CANCEL_NO_SIBS" /\ HandleCancel(k, TRUE, n)
        \/ m.t = "SEND_SYNC" /\ HandleSendSync(k, s, n)
        \/ m.t = "SYNC" /\ HandleSync(k, s, m, n)
    BY Zenon DEF HandleUpdate, Taken, Left
  <1>2. CASE m.t = "SUBMIT" /\ HandleSubmission(k, s, n)
    BY Zenon, <1>2, SubmissionInv
  <1>3. CASE m.t = "SUBMIT_RESP" /\ HandleSubmitResp(k, s, n)
    BY Zenon, <1>3, SubmitRespInv
  <1>4. CASE m.t = "COMPLETE" /\ HandleComplete(k, n)
    BY Zenon, <1>4, CompleteInv
  <1>5. CASE m.t = "START" /\ HandleStart(k, n)
    BY Zenon, <1>5, StartInv
  <1>6. CASE m.t = "CANCEL" /\ HandleCancel(k, FALSE, n)
    <2>1. PICK no \in {FALSE} : TRUE
      BY Zenon
    <2> QED
      BY Zenon, <1>6, <2>1, CancelInv
  <1>7. CASE m.t = "CANCEL_NO_SIBS" /\ HandleCancel(k, TRUE, n)
    <2>1. PICK no \in {TRUE} : TRUE
      BY Zenon
    <2> QED
      BY Zenon, <1>7, <2>1, CancelInv
  <1>8. CASE m.t = "SEND_SYNC" /\ HandleSendSync(k, s, n)
    BY Zenon, <1>8, SendSyncInv
  <1>9. CASE m.t = "SYNC" /\ HandleSync(k, s, m, n)
    BY Zenon, <1>9, SyncInv
  <1> QED
    BY <1>1, <1>2, <1>3, <1>4, <1>5, <1>6, <1>7, <1>8, <1>9, Zenon

\* Every step keeps the invariant.
LEMMA FedStep ==
  ASSUME FirstIds
  PROVE  FedInv /\ [Next]_vars => FedInv'
  <1> SUFFICES ASSUME FedInv, [Next]_vars
               PROVE  FedInv'
    BY Zenon
  <1>1. CASE UNCHANGED vars
    <2>1. /\ UNCHANGED <<jobVars, sched, submitted, around>> /\ net' = net /\ up' = up
          /\ UNCHANGED linkVars /\ UNCHANGED case
      BY Zenon, <1>1 DEF vars, ctlVars
    <2>2. Hushed(net, net')
      BY Zenon, <2>1, FedParts, HushedBasics
    <2> QED
      BY Zenon, <2>1, <2>2, FedParts, CalmLinks, FrameKept DEF FlagTypes
  <1>2. CASE Submit \/ OriginStart
    BY Zenon, <1>2, SubmitStepInv, OriginStartInv
  <1>3. ASSUME NEW k \in Clusters, NEW l \in Clusters,
               OpenSend(k, l) \/ AgentFails(k, l) \/ CallbackFini(k, l) \/ HandleUpdate(k, l)
        PROVE  FedInv'
    BY Zenon, <1>3, OpenSendInv, AgentFailsInv, CallbackFiniInv, HandleUpdateInv
  <1>4. ASSUME NEW k \in Clusters,
               \/ Stop(k) \/ Boot(k)
               \/ JobLock(k) \/ LockNextSib(k) \/ UnlockNextSib(k)
               \/ JobLockRefused(k) \/ SiblingStart(k) \/ JobUnlock(k)
               \/ CleanupCompleting(k) \/ PurgeOldJob(k) \/ KillJob(k)
               \/ \E r \in case.ends : JobEnds(k, r)
        PROVE  FedInv'
    BY Zenon, <1>4, StopInv, BootInv, JobLockInv, LockNextSibInv, UnlockNextSibInv, JobLockRefusedInv,
       SiblingStartInv, JobUnlockInv, CleanupCompletingInv, PurgeOldJobInv, KillJobInv, JobEndsInv
  <1> QED
    BY <1>1, <1>2, <1>3, <1>4, Zenon DEF Next

-----------------------------------------------------------------------------
(* The theorems.                                                           *)

INSTANCE FiniteSetTheorems

\* Cluster ids are natural numbers, so a set of them has a first one.
LEMMA IdsOrdered == FirstIds
  <1> SUFFICES ASSUME NEW S \in SUBSET Clusters, S # {}
               PROVE  Min(S) \in S
    BY Zenon DEF FirstIds
  <1>1. S \subseteq Nat
    BY FedAssumption DEF Clusters
  <1>2. PICK Less : Less = OpToRel(<, Nat)
    BY Zenon
  <1>3. PICK x \in S : \A y \in S : ~(<<y, x>> \in Less)
    BY <1>1, <1>2, NatLessThanWellFounded, WFMin, Zenon
  <1>4. \A y \in S : x =< y
    <2> SUFFICES ASSUME NEW y \in S
                 PROVE  x =< y
      BY Zenon
    <2>1. x \in Nat /\ y \in Nat /\ ~(<<y, x>> \in Less)
      BY Zenon, <1>1, <1>3
    <2>2. (<<y, x>> \in Less) = (<<y, x>> \in Nat \X Nat /\ y < x)
      BY <1>2 DEF OpToRel
    <2> QED
      BY <2>1, <2>2
  <1> QED
    BY Zenon, <1>4 DEF Min

\* FedInv holds in every reachable state.
LEMMA FedInductive == Spec => []FedInv
  <1> QED
    BY FedInit, IdsOrdered, FedStep, PTL DEF Spec

\* The variables of the federation keep their types.
THEOREM FedTyped == Spec => []TypeOK
  <1>1. FedInv => TypeOK
    BY Zenon DEF FedInv
  <1> QED
    BY <1>1, FedInductive, PTL

\* Locks taken at the origin let one cluster run the job.
THEOREM OneClusterRuns == Spec => []OriginExclusive
  <1>1. FedInv => OriginExclusive
    <2> SUFFICES ASSUME FedInv, ~around
                 PROVE  Cardinality(Running) <= 1
      BY Zenon DEF OriginExclusive
    <2>1. OwnInv
      BY Zenon, FedParts
    <2>2. \A k, l \in Running : k = l
      BY Zenon, <2>1 DEF OwnInv, Running, Owner
    <2>3. CASE Running = {}
      BY SMTT(30), <2>3, FS_EmptySet
    <2>4. ASSUME NEW k \in Running
          PROVE  Cardinality(Running) <= 1
      <3>1. Running = {k}
        BY Zenon, <2>2
      <3> QED
        BY SMTT(30), <3>1, FS_Singleton
    <2> QED
      BY Zenon, <2>3, <2>4
  <1> QED
    BY <1>1, FedInductive, PTL

=============================================================================
