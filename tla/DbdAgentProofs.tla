--------------------------- MODULE DbdAgentProofs ---------------------------
(***************************************************************************)
(* No accepted record is lost, for every size of the list and of a         *)
(* message and any number of restarts, lost answers and failures, when no  *)
(* type of record that may be dropped is sent.                             *)
(***************************************************************************)
EXTENDS DbdAgent, TLAPS

\* Nothing that is sent may be dropped: no registrations, and no step records
\* unless max_dbd_msg_action=exit.
NoDrop == "REG" \notin case.types /\ (case.exit \/ "STEP" \notin case.types)

\* The message a live connection carries is the head of the list, and what
\* slurmdbd has worked off of it is stored.
WorkOK(w) ==
  /\ w.n <= Len(w.recs)
  /\ \A i \in 1 .. w.n : w.recs[i] \in db
  /\ w.live => /\ agent = "sent"
               /\ Len(w.recs) <= Len(list)
               /\ \A i \in 1 .. Len(w.recs) : list[i] = w.recs[i]
               /\ ~mult => Len(w.recs) = 1

\* One message is waited for.
OneLive == \A v, w \in work : v.live /\ w.live => v = w

\* A single record that was answered with success is still the head.
GotOK == (agent = "got" /\ ok /\ ~mult) => (Len(list) >= 1 /\ list[1] \in db)

TypesOK(q) == \A i \in 1 .. Len(q) : q[i].type \in case.types

Good ==
  /\ TypeOK
  /\ TypesOK(list) /\ TypesOK(file)
  /\ phase = "down" => list = <<>>
  /\ phase \in {"down", "closed"} => agent = "none"
  /\ OwedKept
  /\ OneLive /\ \A w \in work : WorkOK(w)
  /\ GotOK

\* The inductive invariant.
IInv == case \in AllCases /\ (NoDrop => Good)

-----------------------------------------------------------------------------
\* No step changes the policy or the types of a case.
LEMMA CaseFixed ==
  ASSUME case \in AllCases, [Next]_vars
  PROVE  case' \in AllCases /\ case'.exit = case.exit /\ case'.types = case.types
<1>1. ASSUME NEW b \in {"closes", "crashes", "stops", "faults", "calls"}, Spend(b)
      PROVE  case' \in AllCases /\ case'.exit = case.exit /\ case'.types = case.types
  BY <1>1 DEF Spend, AllCases
<1>2. CASE UNCHANGED case
  BY <1>2
<1>3. CASE Next
  BY <1>1, <1>2, <1>3 DEF Next, Send, SetConn, CtldRecovered, RemConn, Join, Fini, Crash,
     CallWaits, CallEnters, CallReturns, AgentStarts, AgentLoops, AgentParks, AgentSleeps,
     AgentExits, AgentSends, AgentReceives, AgentGivesUp, AgentFinishes, TenSeconds,
     DbdStores, DbdStops, DbdStarts, SaveAndExit
<1> QED
  BY <1>2, <1>3 DEF vars

\* With nothing to drop the list is purged of nothing and saved whole.
LEMMA NothingDropped ==
  ASSUME Good, NoDrop
  PROVE  MaxDbdMsgAction(list) = list /\ Saved(list) = list
BY DEF Good, NoDrop, TypesOK, TypeOK, MaxDbdMsgAction, Purged, Saved, Without

-----------------------------------------------------------------------------
\* What is known of every step.
Keeps == case' \in AllCases /\ case'.exit = case.exit /\ case'.types = case.types

\* The process ends: the file holds the list, or what a crash left is forgiven.
LEMMA ExitGood ==
  ASSUME Good, NoDrop, Keeps, phase # "down", Exit, sends' \in 0 .. MaxSends,
         \/ file' = list /\ owed' = owed
         \/ file' = file /\ owed' = Forgive(list, file)
  PROVE  Good'
<1> USE DEF Good, Keeps
<1>1. TypeOK'
  <2>1. Abandoned \subseteq [recs : Seq(Records), n : Nat, bad : BOOLEAN, live : BOOLEAN]
    <3> SUFFICES ASSUME NEW v \in work
                 PROVE  [v EXCEPT !.live = FALSE] \in
                          [recs : Seq(Records), n : Nat, bad : BOOLEAN, live : BOOLEAN]
      BY DEF Abandoned
    <3> QED
      BY DEF TypeOK
  <2>2. list' \in Seq(Records) /\ Len(list') <= MaxDbdMsgs
    BY DbdAssumption DEF Exit
  <2>3. calls' \in [wait : Nat, in : BOOLEAN, halt : BOOLEAN]
    BY DEF Exit, NoCalls
  <2> QED
    BY <2>1, <2>2, <2>3 DEF TypeOK, Exit, Forgive
<1>2. /\ TypesOK(list)' /\ TypesOK(file)' /\ (phase = "down" => list = <<>>)'
      /\ (phase \in {"down", "closed"} => agent = "none")'
  BY DEF TypesOK, Exit
<1>3. OwedKept'
  BY DEF OwedKept, Pending, Exit, Forgive, Range
<1>4. \A w \in work' : WorkOK(w)' /\ ~w.live
  BY DEF WorkOK, Exit, Abandoned, TypeOK
<1>5. GotOK'
  BY DEF GotOK, Exit
<1> QED
  BY <1>1, <1>2, <1>3, <1>4, <1>5 DEF OneLive, Exit

LEMMA SendGood ==
  ASSUME Good, NoDrop, Keeps, NEW t \in Types, Send(t)
  PROVE  Good'
<1> USE DEF Good, Keeps
<1>1. CASE ExitsNow(list)
  <2>1. sends' \in 0 .. MaxSends
    BY DbdAssumption DEF Send, TypeOK
  <2>2. phase # "down" /\ Exit /\ file' = list /\ owed' = Forgive(list, list)
    BY <1>1, NothingDropped DEF Send
  <2> QED
    BY <2>1, <2>2, ExitGood DEF Forgive
<1>2. CASE ~ExitsNow(list)
  <2> DEFINE r == [id |-> sends + 1, type |-> t]
  <2>0. r \in Records /\ t \in case.types /\ sends' \in 0 .. MaxSends
    BY DbdAssumption DEF Send, TypeOK, Records
  <2>1. /\ \/ Len(list) < MaxDbdMsgs /\ list' = Append(list, r) /\ owed' = owed \cup {r}
           \/ list' = list /\ owed' = owed
        /\ UNCHANGED <<phase, file, recovered, agentVars, calls, dbdVars>> /\ phase # "down"
    BY <1>2, NothingDropped DEF Send, Forgive
  <2>2. /\ Len(list') \in Nat /\ Len(list') >= Len(list)
        /\ \A i \in 1 .. Len(list) : list'[i] = list[i]
        /\ list' \in Seq(Records) /\ Len(list') <= MaxDbdMsgs
    <3> HIDE DEF r
    <3>1. Len(list) \in Nat /\ MaxDbdMsgs \in Nat
      BY DbdAssumption DEF TypeOK
    <3>2. list \in Seq(Records) /\ Len(list) <= MaxDbdMsgs
      BY DEF TypeOK
    <3>3. CASE Len(list) < MaxDbdMsgs /\ list' = Append(list, r)
      BY <2>0, <3>1, <3>2, <3>3
    <3> QED
      BY <2>1, <3>1, <3>2, <3>3
  <2>3. TypeOK'
    BY <2>0, <2>1, <2>2 DEF TypeOK, agentVars, dbdVars
  <2>4. TypesOK(list)' /\ TypesOK(file)'
    <3>1. CASE list' = Append(list, r)
      <4>1. Len(list') = Len(list) + 1 /\ list'[Len(list) + 1] = r /\ Len(list) \in Nat
        BY <3>1, <2>0 DEF TypeOK
      <4>2. r.type = t
        OBVIOUS
      <4> QED
        BY <4>1, <4>2, <2>0, <2>1, <2>2 DEF TypesOK
    <3> QED
      BY <3>1, <2>1 DEF TypesOK
  <2>5. OwedKept'
    <3>1. Range(list) \subseteq Range(list')
      <4>1. DOMAIN list = 1 .. Len(list) /\ DOMAIN list' = 1 .. Len(list')
        BY <2>2 DEF TypeOK
      <4> QED
        BY <2>2, <4>1 DEF Range, TypeOK
    <3>2. CASE list' = Append(list, r) /\ owed' = owed \cup {r}
      <4>1. r \in Range(list')
        BY <3>2, <2>0 DEF Range, TypeOK
      <4> QED
        BY <4>1, <3>1, <3>2, <2>1 DEF OwedKept, Pending, dbdVars
    <3> QED
      BY <3>1, <3>2, <2>1 DEF OwedKept, Pending, dbdVars
  <2>6. \A w \in work' : WorkOK(w)'
    BY <2>1, <2>2 DEF WorkOK, agentVars, dbdVars, TypeOK
  <2>7. GotOK'
    BY <2>1, <2>2 DEF GotOK, agentVars, dbdVars, TypeOK
  <2> QED
    BY <2>1, <2>3, <2>4, <2>5, <2>6, <2>7 DEF OneLive, agentVars, dbdVars
<1> QED
  BY <1>1, <1>2

\* Steps that leave the list, the file, slurmdbd and what is owed alone.
LEMMA FrameGood ==
  ASSUME Good, NoDrop, Keeps, TypeOK',
         UNCHANGED <<list, file, owed, dbdVars, mult>>,
         phase = "down" <=> phase' = "down",
         phase' \in {"down", "closed"} => agent' = "none",
         agent' = agent \/ (agent # "sent" /\ agent' \notin {"sent", "got"}),
         ok' = ok
  PROVE  Good'
<1> USE DEF Good, Keeps
<1>1. TypesOK(list)' /\ TypesOK(file)' /\ OwedKept'
  BY DEF TypesOK, OwedKept, Pending, dbdVars
<1>2. \A w \in work' : WorkOK(w)'
  BY DEF WorkOK, dbdVars
<1>3. GotOK'
  BY DEF GotOK, dbdVars
<1> QED
  BY <1>1, <1>2, <1>3 DEF OneLive, dbdVars

LEMMA QuietGood ==
  ASSUME Good, NoDrop, Keeps,
         \/ CtldRecovered \/ RemConn \/ Join \/ CallWaits \/ CallEnters \/ CallReturns
         \/ AgentStarts \/ AgentLoops \/ AgentParks \/ AgentSleeps \/ TenSeconds
  PROVE  Good'
<1>0. MaxDbdMsgAction(list) = list
  BY NothingDropped
<1>1. TypeOK' /\ UNCHANGED <<list, file, owed, dbdVars, mult, ok>>
  <2> USE DEF Good, Keeps, ctldVars, agentVars, dbdVars
  <2>1. CASE CtldRecovered \/ RemConn \/ Join
    BY <2>1 DEF CtldRecovered, RemConn, Join, TypeOK
  <2>2. CASE CallWaits
    BY <2>2 DEF CallWaits, TypeOK
  <2>3. CASE CallEnters
    <3>1. calls' \in [wait : Nat, in : BOOLEAN, halt : BOOLEAN]
      BY <2>3 DEF CallEnters, TypeOK
    <3> QED
      BY <2>3, <3>1 DEF CallEnters, TypeOK
  <2>6. CASE CallReturns
    <3>1. calls' \in [wait : Nat, in : BOOLEAN, halt : BOOLEAN]
      BY <2>6 DEF CallReturns, TypeOK
    <3> QED
      BY <2>6, <3>1 DEF CallReturns, TypeOK
  <2>4. CASE AgentStarts \/ AgentLoops \/ AgentParks \/ TenSeconds
    BY <2>4 DEF AgentStarts, AgentLoops, AgentParks, TenSeconds, TypeOK
  <2>5. CASE AgentSleeps
    BY <2>5, <1>0 DEF AgentSleeps, Forgive, Reopened, TypeOK
  <2> QED
    BY <2>1, <2>2, <2>3, <2>4, <2>5, <2>6
<1>2. phase = "down" <=> phase' = "down"
  BY DEF CtldRecovered, RemConn, Join, CallWaits, CallEnters, CallReturns, AgentStarts,
     AgentLoops, AgentParks, AgentSleeps, TenSeconds, ctldVars
<1>3. /\ phase' \in {"down", "closed"} => agent' = "none"
      /\ agent' = agent \/ (agent # "sent" /\ agent' \notin {"sent", "got"})
  BY DEF CtldRecovered, RemConn, Join, CallWaits, CallEnters, CallReturns, AgentStarts,
     AgentLoops, AgentParks, AgentSleeps, AgentGoesOn, Unlocked, TenSeconds, agentVars, ctldVars, Good
<1> QED
  BY <1>1, <1>2, <1>3, FrameGood

\* slurmctld ends, orderly or not.
LEMMA EndGood ==
  ASSUME Good, NoDrop, Keeps, Fini \/ AgentExits \/ Crash
  PROVE  Good'
<1>1. phase # "down" /\ Exit /\ sends' \in 0 .. MaxSends
  BY DEF Fini, AgentExits, Crash, SaveAndExit, AgentGoesOn, Good, TypeOK
<1>2. CASE Fini \/ AgentExits
  BY <1>1, <1>2, NothingDropped, ExitGood DEF Fini, AgentExits, SaveAndExit, Forgive
<1>3. CASE Crash
  BY <1>1, <1>3, ExitGood DEF Crash
<1> QED
  BY <1>2, <1>3

LEMMA SetConnGood ==
  ASSUME Good, NoDrop, Keeps, SetConn
  PROVE  Good'
<1> USE DEF Good, Keeps, SetConn, dbdVars
<1>1. TypeOK'
  BY DEF TypeOK
<1>2. /\ TypesOK(list)' /\ TypesOK(file)' /\ (phase = "down" => list = <<>>)'
      /\ (phase \in {"down", "closed"} => agent = "none")'
  BY DEF TypesOK
<1>3. OwedKept'
  BY DEF OwedKept, Pending
<1>4. \A w \in work' : WorkOK(w)'
  BY DEF WorkOK
<1>5. GotOK'
  BY DEF GotOK
<1> QED
  BY <1>1, <1>2, <1>3, <1>4, <1>5 DEF OneLive

LEMMA SendsGood ==
  ASSUME Good, NoDrop, Keeps, AgentSends
  PROVE  Good'
<1> USE DEF Good, Keeps, ctldVars
<1> DEFINE n == IF Len(list) > 1 THEN IF Len(list) < MaxRpcs THEN Len(list) ELSE MaxRpcs ELSE 1
           m == [recs |-> SubSeq(list, 1, n), n |-> 0, bad |-> FALSE, live |-> TRUE]
<1>0. list \in Seq(Records) /\ Len(list) \in Nat \ {0}
  <2>1. list \in Seq(Records) /\ list # <<>>
    BY DEF AgentSends, TypeOK
  <2> QED
    BY <2>1
<1>1. n \in 1 .. Len(list) /\ (Len(list) <= 1 => n = 1)
  BY <1>0, DbdAssumption
<1>2. /\ SubSeq(list, 1, n) \in Seq(Records) /\ Len(SubSeq(list, 1, n)) = n
      /\ \A i \in 1 .. n : SubSeq(list, 1, n)[i] = list[i]
  <2> HIDE DEF n
  <2> QED
    BY <1>0, <1>1
<1>3. /\ work' = work \/ work' = work \cup {m}
      /\ mult' = (Len(list) > 1) /\ agent' = "sent" /\ agent \in {"woken", "try"}
      /\ UNCHANGED <<ctldVars, ok, cooling, calls, dbdUp, db, sends, case>>
  BY DEF AgentSends, AgentGoesOn
<1> HIDE DEF n
<1>4. TypeOK'
  <2>1. m \in [recs : Seq(Records), n : Nat, bad : BOOLEAN, live : BOOLEAN]
    BY <1>2
  <2>2. conn' \in BOOLEAN
    BY DEF AgentSends, Reopened, TypeOK
  <2> HIDE DEF m
  <2> QED
    BY <2>1, <2>2, <1>3 DEF TypeOK
<1>5. TypesOK(list)' /\ TypesOK(file)' /\ OwedKept' /\ GotOK'
  BY <1>3 DEF TypesOK, OwedKept, Pending, GotOK
<1>6. \A w \in work : ~w.live
  BY <1>3 DEF WorkOK
<1>7. \A w \in work' : WorkOK(w)'
  <2> SUFFICES ASSUME NEW w \in work' PROVE WorkOK(w)'
    OBVIOUS
  <2>1. CASE w \in work
    BY <2>1, <1>3, <1>6 DEF WorkOK
  <2>2. CASE w = m
    <3>1. w.n = 0 /\ w.recs = SubSeq(list, 1, n)
      BY <2>2
    <3> HIDE DEF m
    <3>2. w.n <= Len(w.recs) /\ \A i \in 1 .. w.n : w.recs[i] \in db'
      BY <3>1, <1>1, <1>2
    <3>3. Len(w.recs) <= Len(list) /\ \A i \in 1 .. Len(w.recs) : list[i] = w.recs[i]
      BY <3>1, <1>0, <1>1, <1>2
    <3>4. ASSUME ~mult' PROVE Len(w.recs) = 1
      <4>1. ~(Len(list) > 1)
        BY <3>4, <1>3
      <4>2. Len(list) <= 1
        BY <4>1, <1>0
      <4> QED
        BY <4>2, <3>1, <1>1, <1>2
    <3> QED
      BY <3>2, <3>3, <3>4, <1>3 DEF WorkOK
  <2> HIDE DEF m
  <2> QED
    BY <2>1, <2>2, <1>3
<1>8. OneLive'
  BY <1>3, <1>6 DEF OneLive
<1>9. phase \notin {"down", "closed"}
  BY <1>3
<1> QED
  BY <1>3, <1>4, <1>5, <1>7, <1>8, <1>9

\* Stored records are taken off the front of the list.
LEMMA DequeuedStored ==
  ASSUME Good, NEW n \in 0 .. Len(list), \A i \in 1 .. n : list[i] \in db
  PROVE  /\ Dequeued(list, n) \in Seq(Records) /\ Len(Dequeued(list, n)) <= MaxDbdMsgs
         /\ TypesOK(Dequeued(list, n))
         /\ Range(list) \subseteq db \cup Range(Dequeued(list, n))
<1> DEFINE d == Dequeued(list, n)
<1>1. list \in Seq(Records) /\ Len(list) \in Nat /\ Len(list) <= MaxDbdMsgs /\ MaxDbdMsgs \in Nat
  BY DbdAssumption DEF Good, TypeOK
<1>2. /\ d \in Seq(Records) /\ Len(d) = Len(list) - n
      /\ \A i \in 1 .. Len(d) : d[i] = list[n + i]
  BY <1>1 DEF Dequeued
<1>3. TypesOK(d)
  BY <1>1, <1>2 DEF TypesOK, Good
<1>4. Range(list) \subseteq db \cup Range(d)
  <2> HIDE DEF d
  <2>1. DOMAIN list = 1 .. Len(list) /\ DOMAIN d = 1 .. Len(d)
    BY <1>1, <1>2
  <2> SUFFICES ASSUME NEW i \in 1 .. Len(list), list[i] \notin db
               PROVE  list[i] \in Range(d)
    BY <2>1 DEF Range
  <2>2. i - n \in 1 .. Len(d) /\ d[i - n] = list[i]
    BY <1>1, <1>2
  <2> QED
    BY <2>1, <2>2 DEF Range
<1> QED
  BY <1>1, <1>2, <1>3, <1>4

LEMMA ReceivesGood ==
  ASSUME Good, NoDrop, Keeps, AgentReceives
  PROVE  Good'
<1> USE DEF Good, Keeps
<1>1. PICK w \in work :
        /\ w.live /\ (w.bad \/ w.n = Len(w.recs))
        /\ work' = work \ {w}
        /\ ok' = ~w.bad
        /\ list' = IF mult THEN Dequeued(list, w.n) ELSE list
  BY DEF AgentReceives
<1>2. /\ agent = "sent" /\ agent' = "got"
      /\ UNCHANGED <<phase, file, recovered, owed, mult, cooling, conn, calls, dbdUp, db, sends, case>>
  BY DEF AgentReceives
<1>3. w \in [recs : Seq(Records), n : Nat, bad : BOOLEAN, live : BOOLEAN] /\ WorkOK(w)
  BY DEF TypeOK
<1>4. w.n \in 0 .. Len(list) /\ \A i \in 1 .. w.n : list[i] \in db
  <2>1. Len(w.recs) \in Nat /\ Len(list) \in Nat /\ w.n \in Nat
    BY <1>3 DEF TypeOK
  <2> QED
    BY <2>1, <1>1, <1>3 DEF WorkOK
<1>5. /\ list' \in Seq(Records) /\ Len(list') <= MaxDbdMsgs /\ TypesOK(list')
      /\ Range(list) \subseteq db \cup Range(list')
  <2>1. CASE mult
    BY <2>1, <1>1, <1>4, DequeuedStored
  <2>2. CASE ~mult
    BY <2>2, <1>1 DEF TypeOK
  <2> QED
    BY <2>1, <2>2
<1>6. TypeOK'
  BY <1>1, <1>2, <1>3, <1>5 DEF TypeOK
<1>7. TypesOK(list)' /\ TypesOK(file)'
  BY <1>2, <1>5 DEF TypesOK
<1>8. OwedKept'
  BY <1>2, <1>5 DEF OwedKept, Pending
<1>9. \A v \in work' : ~v.live /\ WorkOK(v)'
  BY <1>1, <1>2 DEF OneLive, WorkOK
<1>10. GotOK'
  <2> SUFFICES ASSUME ok', ~mult PROVE Len(list') >= 1 /\ list'[1] \in db
    BY <1>2 DEF GotOK
  <2>1. w.n = 1 /\ Len(w.recs) = 1 /\ list' = list
    BY <1>1, <1>3 DEF WorkOK
  <2> QED
    BY <2>1, <1>4, <1>1, <1>3 DEF TypeOK
<1> QED
  BY <1>2, <1>6, <1>7, <1>8, <1>9, <1>10 DEF OneLive

\* No answer: the message may be worked on, and nothing is taken off.
LEMMA GivesUpGood ==
  ASSUME Good, NoDrop, Keeps, AgentGivesUp
  PROVE  Good'
<1> USE DEF Good, Keeps, ctldVars
<1>1. /\ agent = "sent" /\ agent' \in {"got", "none"} /\ work' = Abandoned /\ ok' = FALSE
      /\ conn' \in BOOLEAN
      /\ UNCHANGED <<ctldVars, mult, cooling, calls, dbdUp, db, sends>>
  BY DEF AgentGivesUp, TypeOK
<1>2. \A w \in work' : WorkOK(w)' /\ ~w.live
  <2> SUFFICES ASSUME NEW w \in work' PROVE WorkOK(w)' /\ ~w.live
    OBVIOUS
  <2>1. PICK v \in work : w = [v EXCEPT !.live = FALSE]
    BY <1>1 DEF Abandoned
  <2>2. w.recs = v.recs /\ w.n = v.n /\ ~w.live
    BY <2>1 DEF TypeOK
  <2> QED
    BY <2>2, <1>1 DEF WorkOK
<1>3. TypeOK'
  <2>1. Abandoned \subseteq [recs : Seq(Records), n : Nat, bad : BOOLEAN, live : BOOLEAN]
    <3> SUFFICES ASSUME NEW v \in work
                 PROVE  [v EXCEPT !.live = FALSE] \in
                          [recs : Seq(Records), n : Nat, bad : BOOLEAN, live : BOOLEAN]
      BY DEF Abandoned
    <3> QED
      BY DEF TypeOK
  <2> QED
    BY <1>1, <2>1 DEF TypeOK
<1>4. TypesOK(list)' /\ TypesOK(file)' /\ OwedKept' /\ GotOK'
  BY <1>1 DEF TypesOK, OwedKept, Pending, GotOK
<1> QED
  BY <1>1, <1>2, <1>3, <1>4 DEF OneLive

LEMMA FinishesGood ==
  ASSUME Good, NoDrop, Keeps, AgentFinishes
  PROVE  Good'
<1> USE DEF Good, Keeps, dbdVars
<1>1. /\ agent = "got" /\ agent' = "top"
      /\ list' = IF ok /\ ~mult THEN Dequeued(list, 1) ELSE list
      /\ UNCHANGED <<phase, file, recovered, owed, mult, ok, conn, calls, dbdVars, sends, case>>
  BY DEF AgentFinishes
<1>2. /\ list' \in Seq(Records) /\ Len(list') <= MaxDbdMsgs /\ TypesOK(list')
      /\ Range(list) \subseteq db \cup Range(list')
  <2>1. CASE ok /\ ~mult
    <3>1. Len(list) >= 1 /\ list[1] \in db
      BY <2>1, <1>1 DEF GotOK
    <3>2. 1 \in 0 .. Len(list)
      BY <3>1 DEF TypeOK
    <3>3. \A i \in 1 .. 1 : list[i] \in db
      BY <3>1
    <3> QED
      BY <2>1, <1>1, <3>2, <3>3, DequeuedStored
  <2>2. CASE ~(ok /\ ~mult)
    BY <2>2, <1>1 DEF TypeOK
  <2> QED
    BY <2>1, <2>2
<1>3. TypeOK'
  BY <1>1, <1>2 DEF TypeOK, AgentFinishes
<1>4. TypesOK(list)' /\ TypesOK(file)'
  BY <1>1, <1>2 DEF TypesOK
<1>5. OwedKept'
  BY <1>1, <1>2 DEF OwedKept, Pending
<1>6. \A w \in work' : ~w.live /\ WorkOK(w)'
  BY <1>1 DEF WorkOK
<1> QED
  BY <1>1, <1>3, <1>4, <1>5, <1>6 DEF GotOK, OneLive

LEMMA StoresGood ==
  ASSUME Good, NoDrop, Keeps, DbdStores
  PROVE  Good'
<1> USE DEF Good, Keeps, ctldVars, agentVars
<1> DEFINE W == [recs : Seq(Records), n : Nat, bad : BOOLEAN, live : BOOLEAN]
<1>1. PICK w \in work :
        /\ ~w.bad /\ w.n < Len(w.recs)
        /\ \/ /\ db' = db \cup {w.recs[w.n + 1]}
              /\ work' = (work \ {w}) \cup Remains([w EXCEPT !.n = @ + 1])
           \/ /\ work' = (work \ {w}) \cup Remains([w EXCEPT !.bad = TRUE])
              /\ UNCHANGED db
  BY DEF DbdStores
<1>2. UNCHANGED <<ctldVars, agentVars, calls, dbdUp, sends>>
  BY DEF DbdStores
<1>3. w \in W /\ WorkOK(w) /\ w.n + 1 \in 1 .. Len(w.recs)
  BY <1>1 DEF TypeOK
<1>4. PICK v \in W :
        /\ work' \subseteq (work \ {w}) \cup {v}
        /\ v.recs = w.recs /\ v.live = w.live
        /\ v.n <= Len(v.recs) /\ \A i \in 1 .. v.n : v.recs[i] \in db'
  <2>1. CASE /\ db' = db \cup {w.recs[w.n + 1]}
             /\ work' = (work \ {w}) \cup Remains([w EXCEPT !.n = @ + 1])
    <3> DEFINE v == [w EXCEPT !.n = @ + 1]
    <3>1. v \in W /\ v.recs = w.recs /\ v.live = w.live /\ v.n = w.n + 1
      BY <1>3
    <3>2. work' \subseteq (work \ {w}) \cup {v}
      BY <2>1 DEF Remains
    <3> HIDE DEF v
    <3>3. v.n <= Len(v.recs) /\ \A i \in 1 .. v.n : v.recs[i] \in db'
      BY <2>1, <3>1, <1>3 DEF WorkOK
    <3> QED
      BY <3>1, <3>2, <3>3
  <2>2. CASE /\ work' = (work \ {w}) \cup Remains([w EXCEPT !.bad = TRUE])
             /\ UNCHANGED db
    <3> DEFINE v == [w EXCEPT !.bad = TRUE]
    <3>1. v \in W /\ v.recs = w.recs /\ v.live = w.live /\ v.n = w.n
      BY <1>3
    <3>2. work' \subseteq (work \ {w}) \cup {v}
      BY <2>2 DEF Remains
    <3> HIDE DEF v
    <3> QED
      BY <2>2, <3>1, <3>2, <1>3 DEF WorkOK
  <2> QED
    BY <1>1, <2>1, <2>2
<1>5. db \subseteq db' /\ db' \subseteq Records
  <2>1. w.recs[w.n + 1] \in Records
    BY <1>3
  <2> QED
    BY <2>1, <1>1 DEF TypeOK
<1>6. TypeOK'
  BY <1>2, <1>4, <1>5 DEF TypeOK
<1>7. TypesOK(list)' /\ TypesOK(file)' /\ OwedKept' /\ GotOK'
  BY <1>2, <1>5 DEF TypesOK, OwedKept, Pending, GotOK
<1>8. \A u \in work' : WorkOK(u)'
  <2>1. \A u \in work : WorkOK(u)'
    BY <1>2, <1>5 DEF WorkOK
  <2>2. WorkOK(v)'
    BY <1>2, <1>3, <1>4 DEF WorkOK
  <2> QED
    BY <2>1, <2>2, <1>4
<1>9. OneLive'
  BY <1>4 DEF OneLive
<1> QED
  BY <1>2, <1>6, <1>7, <1>8, <1>9

LEMMA RestartsGood ==
  ASSUME Good, NoDrop, Keeps, DbdStops \/ DbdStarts
  PROVE  Good'
<1> USE DEF Good, Keeps, ctldVars, agentVars
<1>1. /\ UNCHANGED <<ctldVars, agentVars, calls, db, sends>>
      /\ work' \subseteq work /\ dbdUp' \in BOOLEAN
  BY DEF DbdStops, DbdStarts
<1>2. TypeOK'
  BY <1>1 DEF TypeOK
<1>3. TypesOK(list)' /\ TypesOK(file)' /\ OwedKept' /\ GotOK'
  BY <1>1 DEF TypesOK, OwedKept, Pending, GotOK
<1>4. OneLive' /\ \A w \in work' : WorkOK(w)'
  BY <1>1 DEF OneLive, WorkOK
<1> QED
  BY <1>1, <1>2, <1>3, <1>4

-----------------------------------------------------------------------------
LEMMA InitIInv == Init => IInv
<1> SUFFICES ASSUME Init PROVE IInv
  OBVIOUS
<1> USE DEF Init
<1>1. case \in AllCases
  BY DbdAssumption
<1>2. TypeOK
  <2>1. calls \in [wait : Nat, in : BOOLEAN, halt : BOOLEAN]
    BY DEF NoCalls
  <2>2. list \in Seq(Records) /\ file \in Seq(Records) /\ Len(list) = 0 /\ Len(file) = 0
    OBVIOUS
  <2>3. Len(list) <= MaxDbdMsgs /\ Len(file) <= MaxDbdMsgs /\ sends \in 0 .. MaxSends
    BY <2>2, DbdAssumption
  <2>4. {recovered, mult, ok, cooling, conn, dbdUp} \subseteq BOOLEAN
    OBVIOUS
  <2> QED
    BY <1>1, <2>1, <2>2, <2>3, <2>4 DEF TypeOK
<1>3. TypesOK(list) /\ TypesOK(file) /\ OwedKept /\ GotOK
  BY DEF TypesOK, OwedKept, GotOK
<1> QED
  BY <1>1, <1>2, <1>3 DEF IInv, Good, OneLive

LEMMA NextIInv == IInv /\ [Next]_vars => IInv'
<1> SUFFICES ASSUME IInv, [Next]_vars PROVE IInv'
  OBVIOUS
<1>1. Keeps
  BY CaseFixed DEF IInv, Keeps
<1> SUFFICES ASSUME NoDrop, Good PROVE Good'
  BY <1>1 DEF IInv, NoDrop, Keeps
<1>2. CASE UNCHANGED vars
  <2>1. TypeOK'
    BY <1>2 DEF Good, TypeOK, vars, ctldVars, agentVars, dbdVars
  <2> QED
    BY <1>1, <1>2, <2>1, FrameGood DEF vars, ctldVars, agentVars, dbdVars, Good
<1>3. CASE Next
  BY <1>1, <1>3, SendGood, QuietGood, EndGood, SetConnGood, SendsGood, ReceivesGood,
     GivesUpGood, FinishesGood, StoresGood, RestartsGood DEF Next
<1> QED
  BY <1>2, <1>3

\* When nothing that is sent may be dropped, a record slurmdbd_agent_send put on
\* agent_list is stored, on the list or in dbd.messages, through any number of
\* lost answers, refused records, late work on abandoned connections and
\* restarts of either daemon, for every MaxDBDMsgs and every size of a message.
THEOREM NoRecordLost == Spec => [](NoDrop => OwedKept)
<1>1. IInv => (NoDrop => OwedKept)
  BY DEF IInv, Good
<1> QED
  BY <1>1, InitIInv, NextIInv, PTL DEF Spec

\* agent_list never holds more than MaxDBDMsgs records and the list, the file and
\* the messages are well formed, when nothing may be dropped.
THEOREM ListBounded == Spec => [](NoDrop => TypeOK)
<1>1. IInv => (NoDrop => TypeOK)
  BY DEF IInv, Good
<1> QED
  BY <1>1, InitIInv, NextIInv, PTL DEF Spec

=============================================================================
