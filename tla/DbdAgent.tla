------------------------------ MODULE DbdAgent ------------------------------
(***************************************************************************)
(* The accounting agent of slurmctld: slurmdbd_agent.c of the plugin       *)
(* accounting_storage/slurmdbd, the calls that open and close it, and the  *)
(* service of slurmdbd it talks to.                                        *)
(*                                                                         *)
(* Threads of slurmctld put records on agent_list; the agent sends the     *)
(* first ones to slurmdbd in one message, leaves them on the list while it *)
(* waits, and takes one off for every success it is told of.  agent_lock   *)
(* guards the list and is free while the message is out; slurmdbd_lock     *)
(* guards the connection and is held until the answer is in.               *)
(***************************************************************************)
EXTENDS Integers, Sequences, FiniteSets

CONSTANTS
  MaxDbdMsgs,   \* slurm_conf.max_dbd_msgs
  MaxRpcs,      \* max_rpcs of _agent: records in one message
  MaxSends,     \* bound: records that threads try to send
  Cases         \* bounds, one record per case; see AllCases

Types == {"JOB", "STEP", "REG"}

\* exit: max_dbd_msg_action=exit; types: of the records sent; then how often the
\* connection is closed, slurmctld killed, slurmdbd stopped, an answer lost or a
\* record refused by slurmdbd, and slurmdbd_agent_send_recv called.
AllCases == [exit : BOOLEAN, types : SUBSET Types, closes : Nat, crashes : Nat,
             stops : Nat, faults : Nat, calls : Nat]

ASSUME DbdAssumption ==
  /\ MaxDbdMsgs \in Nat \ {0} /\ MaxRpcs \in Nat \ {0} /\ MaxSends \in Nat
  /\ Cases \subseteq AllCases

VARIABLES
  phase,      \* slurmctld: down; up; closing, slurmdbd_shutdown is set and the
              \* agent not joined; closed, the list is kept for late writers
  list,       \* agent_list
  file,       \* StateSaveLocation/dbd.messages
  recovered,  \* ctld_recovered
  agent,      \* where _agent is
  mult,       \* the message out is a DBD_SEND_MULT_MSG
  ok,         \* rc of the last message was SLURM_SUCCESS
  cooling,    \* less than 10 seconds since fail_time
  conn,       \* slurmdbd_conn->conn is set
  calls,      \* threads in slurmdbd_agent_send_recv: waiting, inside
  dbdUp,      \* slurmdbd runs
  work,       \* messages slurmdbd works on
  db,         \* records slurmdbd has stored
  sends,      \* records tried so far
  owed,       \* history: accepted records that no crash or purge took
  case        \* what is left of the bounds

ctldVars == <<phase, list, file, recovered, owed>>
agentVars == <<agent, mult, ok, cooling, conn>>
dbdVars == <<dbdUp, work, db>>
vars == <<ctldVars, agentVars, calls, dbdVars, sends, case>>

Records == [id : 1 .. MaxSends, type : Types]
Tracked == {r \in Records : r.type # "REG"}
NoCalls == [wait |-> 0, in |-> FALSE, halt |-> FALSE]
Range(s) == {s[i] : i \in DOMAIN s}

TypeOK ==
  /\ phase \in {"down", "up", "closing", "closed"}
  /\ list \in Seq(Records) /\ Len(list) <= MaxDbdMsgs
  /\ file \in Seq(Records) /\ Len(file) <= MaxDbdMsgs
  /\ agent \in {"none", "wait", "top", "try", "parked", "woken", "sent", "got"}
  /\ calls \in [wait : Nat, in : BOOLEAN, halt : BOOLEAN]
  /\ work \subseteq [recs : Seq(Records), n : Nat, bad : BOOLEAN, live : BOOLEAN]
  /\ {recovered, mult, ok, cooling, conn, dbdUp} \subseteq BOOLEAN
  /\ db \subseteq Records /\ owed \subseteq Records
  /\ sends \in 0 .. MaxSends /\ case \in AllCases

Init ==
  /\ case \in Cases
  /\ phase = "down" /\ list = <<>> /\ file = <<>> /\ recovered = FALSE
  /\ agent = "none" /\ mult = FALSE /\ ok = FALSE /\ cooling = FALSE /\ conn = FALSE
  /\ calls = NoCalls
  /\ dbdUp = TRUE /\ work = {} /\ db = {}
  /\ sends = 0 /\ owed = {}

\* One of a bounded number of events happens.
Spend(b) == case[b] > 0 /\ case' = [case EXCEPT ![b] = @ - 1]

-----------------------------------------------------------------------------
(* The list *)

Dequeued(q, n) == SubSeq(q, n + 1, Len(q))

\* The list q without the records of type t.
Without(q, t) ==
  IF \E i \in DOMAIN q : q[i].type = t THEN SelectSeq(q, LAMBDA r : r.type # t) ELSE q

\* _purge_agent_list_req
Purged(q) == Without(q, "STEP")

\* _max_dbd_msg_action: what is left of the list, unless slurmctld exits.
ExitsNow(q) == case.exit /\ Len(q) >= MaxDbdMsgs
MaxDbdMsgAction(q) ==
  IF ~case.exit /\ Len(q) >= MaxDbdMsgs - 1 THEN Purged(q) ELSE q

\* _save_dbd_state: registrations are not saved.
Saved(q) == Without(q, "REG")

\* The records of q that are not in p and not stored are not owed any more.
Forgive(q, p) == owed \ ((Range(q) \ Range(p)) \ db)

\* The messages nobody waits for any more and slurmdbd is not through with.
Abandoned == {[w EXCEPT !.live = FALSE] : w \in {v \in work : ~v.bad /\ v.n < Len(v.recs)}}

\* The process is gone; slurmdbd finishes what it was sent.
Exit ==
  /\ phase' = "down" /\ list' = <<>> /\ recovered' = FALSE
  /\ agent' = "none" /\ conn' = FALSE /\ cooling' = FALSE /\ calls' = NoCalls
  /\ mult' = FALSE /\ ok' = FALSE
  /\ work' = Abandoned
  /\ UNCHANGED <<dbdUp, db>>

\* fatal() after _save_dbd_state
SaveAndExit ==
  /\ Exit
  /\ file' = Saved(list)
  /\ owed' = Forgive(list, Saved(list))
  /\ UNCHANGED <<sends, case>>

\* mutant: the list may have one record more
Send_OneMore(t) ==
  /\ phase # "down" /\ sends < MaxSends /\ t \in case.types
  /\ sends' = sends + 1
  /\ LET r == [id |-> sends + 1, type |-> t]
         q == MaxDbdMsgAction(list)
     IN IF ExitsNow(list)
        THEN /\ Exit
             /\ file' = Saved(list)
             /\ owed' = Forgive(list, Saved(list))
        ELSE /\ IF Len(q) <= MaxDbdMsgs
                THEN list' = Append(q, r) /\ owed' = Forgive(list, q) \cup {r}
                ELSE list' = q /\ owed' = Forgive(list, q)
             /\ UNCHANGED <<phase, file, recovered, agentVars, calls, dbdVars>>
  /\ UNCHANGED case

\* slurmdbd_agent_send
Send(t) ==
  /\ phase # "down" /\ sends < MaxSends /\ t \in case.types
  /\ sends' = sends + 1
  /\ LET r == [id |-> sends + 1, type |-> t]
         q == MaxDbdMsgAction(list)
     IN IF ExitsNow(list)
        THEN /\ Exit
             /\ file' = Saved(list)
             /\ owed' = Forgive(list, Saved(list))
        ELSE /\ IF Len(q) < MaxDbdMsgs
                THEN list' = Append(q, r) /\ owed' = Forgive(list, q) \cup {r}
                ELSE list' = q /\ owed' = Forgive(list, q)
             /\ UNCHANGED <<phase, file, recovered, agentVars, calls, dbdVars>>
  /\ UNCHANGED case

-----------------------------------------------------------------------------
(* Opening and closing *)

\* mutant: the file is loaded into a list that is still there
SetConn_LoadsAgain ==
  /\ phase \in {"down", "closed"}
  /\ phase' = "up" /\ agent' = "wait" /\ conn' = dbdUp
  /\ list' = list \o file
  /\ UNCHANGED <<file, recovered, owed, mult, ok, cooling, calls, dbdVars, sends, case>>

\* slurmdbd_agent_set_conn: in a new slurmctld the list is loaded, in one that
\* closed the connection it is still there.  The agent is created.
SetConn ==
  /\ phase \in {"down", "closed"}
  /\ phase' = "up" /\ agent' = "wait" /\ conn' = dbdUp
  /\ list' = IF phase = "down" THEN file ELSE list
  /\ UNCHANGED <<file, recovered, owed, mult, ok, cooling, calls, dbdVars, sends, case>>

\* slurmdbd_agent_ctld_recovered
CtldRecovered ==
  /\ phase = "up" /\ ~recovered
  /\ recovered' = TRUE
  /\ UNCHANGED <<phase, list, file, owed, agentVars, calls, dbdVars, sends, case>>

\* slurmdbd_agent_rem_conn, _shutdown_agent up to the join
RemConn ==
  /\ phase = "up" /\ Spend("closes")
  /\ phase' = "closing" /\ recovered' = FALSE
  /\ UNCHANGED <<list, file, owed, agentVars, calls, dbdVars, sends>>

\* ... and after it, with slurmdbd_lock
Join ==
  /\ phase = "closing" /\ agent = "none" /\ ~calls.in
  /\ phase' = "closed" /\ conn' = FALSE
  /\ UNCHANGED <<list, file, recovered, owed, agent, mult, ok, cooling, calls, dbdVars, sends, case>>

\* slurmdbd_agent_fini
Fini == phase = "closed" /\ SaveAndExit

\* slurmctld is killed.  The file is the one of the last orderly end.
Crash ==
  /\ phase # "down" /\ Spend("crashes")
  /\ Exit
  /\ owed' = Forgive(list, file)
  /\ UNCHANGED <<file, sends>>

-----------------------------------------------------------------------------
(* slurmdbd_agent_send_recv *)

CallWaits ==
  /\ phase # "down" /\ Spend("calls")
  /\ calls' = [wait |-> calls.wait + 1, in |-> calls.in, halt |-> TRUE]
  /\ UNCHANGED <<ctldVars, agentVars, dbdVars, sends>>

\* slurmdbd_lock is free
Unlocked == agent # "sent" /\ ~calls.in

CallEnters ==
  /\ calls.wait > 0 /\ Unlocked
  /\ calls' = [wait |-> calls.wait - 1, in |-> TRUE, halt |-> FALSE]
  /\ UNCHANGED <<ctldVars, agentVars, dbdVars, sends, case>>

\* mutant: the agent is not woken
CallReturns_NoSignal ==
  /\ calls.in
  /\ calls' = [calls EXCEPT !.in = FALSE]
  /\ conn' = IF phase = "closed" THEN FALSE ELSE dbdUp
  /\ UNCHANGED <<ctldVars, agent, mult, ok, cooling, dbdVars, sends, case>>

\* With no slurmdbd_conn the call returns at once; else the connection is
\* opened if it was closed.  Either way slurmdbd_cond is signalled.
CallReturns ==
  /\ calls.in
  /\ calls' = [calls EXCEPT !.in = FALSE]
  /\ conn' = IF phase = "closed" THEN FALSE ELSE dbdUp
  /\ agent' = IF agent = "parked" THEN "woken" ELSE agent
  /\ UNCHANGED <<ctldVars, mult, ok, cooling, dbdVars, sends, case>>

-----------------------------------------------------------------------------
(* _agent *)

\* mutant: only the recovery ends the wait
AgentStarts_Recovered ==
  /\ agent = "wait" /\ recovered
  /\ agent' = "top"
  /\ UNCHANGED <<ctldVars, mult, ok, cooling, conn, calls, dbdVars, sends, case>>

\* The state of the controller is loaded, or it is shutting down already.
AgentStarts ==
  /\ agent = "wait" /\ (recovered \/ phase = "closing")
  /\ agent' = "top"
  /\ UNCHANGED <<ctldVars, mult, ok, cooling, conn, calls, dbdVars, sends, case>>

\* The condition of the loop
AgentLoops ==
  /\ agent = "top"
  /\ agent' = IF phase = "closing" THEN "none" ELSE "try"
  /\ UNCHANGED <<ctldVars, mult, ok, cooling, conn, calls, dbdVars, sends, case>>

AgentParks ==
  /\ agent = "try" /\ Unlocked /\ calls.halt
  /\ agent' = "parked"
  /\ UNCHANGED <<ctldVars, mult, ok, cooling, conn, calls, dbdVars, sends, case>>

\* The connection after the attempt to reopen it, and whether it is too early
\* to use it.
Reopened == conn \/ (~cooling /\ dbdUp)
TooEarly == cooling \/ ~Reopened

\* slurmdbd_lock is taken and _agent goes on, not looking at halt_agent again.
AgentGoesOn == Unlocked /\ (agent = "woken" \/ (agent = "try" /\ ~calls.halt))

\* Nothing can be sent: the list is looked after, and the agent sleeps.
AgentSleeps ==
  /\ AgentGoesOn
  /\ list = <<>> \/ TooEarly
  /\ ~ExitsNow(list)
  /\ list' = MaxDbdMsgAction(list)
  /\ owed' = Forgive(list, list')
  /\ conn' = Reopened /\ cooling' = (cooling \/ ~Reopened)
  /\ agent' = IF phase = "closing" THEN "none" ELSE "top"
  /\ UNCHANGED <<phase, file, recovered, mult, ok, calls, dbdVars, sends, case>>

AgentExits ==
  /\ AgentGoesOn
  /\ list = <<>> \/ TooEarly
  /\ ExitsNow(list)
  /\ SaveAndExit

\* The first records are sent, and stay on the list.
AgentSends ==
  /\ AgentGoesOn
  /\ list # <<>> /\ ~TooEarly
  /\ LET n == IF Len(list) > 1 THEN IF Len(list) < MaxRpcs THEN Len(list) ELSE MaxRpcs ELSE 1
     IN work' = IF ~dbdUp THEN work
                ELSE work \cup {[recs |-> SubSeq(list, 1, n), n |-> 0, bad |-> FALSE, live |-> TRUE]}
  /\ mult' = (Len(list) > 1)
  /\ conn' = Reopened
  /\ agent' = "sent"
  /\ UNCHANGED <<ctldVars, ok, cooling, calls, dbdUp, db, sends, case>>

\* mutant: an answer takes all the records of the message off the list
AgentReceives_All ==
  /\ agent = "sent"
  /\ \E w \in work :
       /\ w.live /\ (w.bad \/ w.n = Len(w.recs))
       /\ work' = work \ {w}
       /\ ok' = ~w.bad
       /\ list' = IF mult THEN Dequeued(list, Len(w.recs)) ELSE list
  /\ agent' = "got"
  /\ UNCHANGED <<phase, file, recovered, owed, mult, cooling, conn, calls, dbdUp, db, sends, case>>

\* slurmdbd answered: _handle_mult_rc_ret takes the stored ones off the list
AgentReceives ==
  /\ agent = "sent"
  /\ \E w \in work :
       /\ w.live /\ (w.bad \/ w.n = Len(w.recs))
       /\ work' = work \ {w}
       /\ ok' = ~w.bad
       /\ list' = IF mult THEN Dequeued(list, w.n) ELSE list
  /\ agent' = "got"
  /\ UNCHANGED <<phase, file, recovered, owed, mult, cooling, conn, calls, dbdUp, db, sends, case>>

\* No answer: slurmdbd is gone, or too slow.  The connection is made anew; what
\* slurmdbd was sent on the old one it may still do.  A message that could not
\* even be sent ends the agent of a slurmctld that shuts down.
AgentGivesUp ==
  /\ agent = "sent"
  /\ \/ ~(\E w \in work : w.live) /\ UNCHANGED case
     \/ (\E w \in work : w.live) /\ Spend("faults")
  /\ work' = Abandoned
  /\ ok' = FALSE
  /\ conn' = (dbdUp /\ phase # "closing")
  /\ \/ agent' = "got"
     \/ agent' = "none" /\ phase = "closing" /\ ~(\E w \in work : w.live)
  /\ UNCHANGED <<ctldVars, mult, cooling, calls, dbdUp, db, sends>>

\* The end of the loop, with agent_lock: a single record is taken off here.
AgentFinishes ==
  /\ agent = "got"
  /\ list' = IF ok /\ ~mult THEN Dequeued(list, 1) ELSE list
  /\ cooling' = ~ok
  /\ agent' = "top"
  /\ UNCHANGED <<phase, file, recovered, owed, mult, ok, conn, calls, dbdVars, sends, case>>

TenSeconds ==
  /\ cooling
  /\ cooling' = FALSE
  /\ UNCHANGED <<ctldVars, agent, mult, ok, conn, calls, dbdVars, sends, case>>

-----------------------------------------------------------------------------
(* slurmdbd *)

\* A message that is done is kept for the one who waits for the answer.
Remains(w) == IF w.live \/ (~w.bad /\ w.n < Len(w.recs)) THEN {w} ELSE {}

\* The next record of a message, as _send_mult_msg goes through them; the
\* first that fails ends it.
DbdStores ==
  \E w \in work :
    /\ ~w.bad /\ w.n < Len(w.recs)
    /\ \/ /\ db' = db \cup {w.recs[w.n + 1]}
          /\ work' = (work \ {w}) \cup Remains([w EXCEPT !.n = @ + 1])
          /\ UNCHANGED case
       \/ /\ Spend("faults")
          /\ work' = (work \ {w}) \cup Remains([w EXCEPT !.bad = TRUE])
          /\ UNCHANGED db
    /\ UNCHANGED <<ctldVars, agentVars, calls, dbdUp, sends>>

DbdStops ==
  /\ dbdUp /\ Spend("stops")
  /\ dbdUp' = FALSE /\ work' = {}
  /\ UNCHANGED <<ctldVars, agentVars, calls, db, sends>>

DbdStarts ==
  /\ ~dbdUp
  /\ dbdUp' = TRUE
  /\ UNCHANGED <<ctldVars, agentVars, calls, work, db, sends, case>>

-----------------------------------------------------------------------------
Next ==
  \/ \E t \in Types : Send(t)
  \/ SetConn \/ CtldRecovered \/ RemConn \/ Join \/ Fini \/ Crash
  \/ CallWaits \/ CallEnters \/ CallReturns
  \/ AgentStarts \/ AgentLoops \/ AgentParks \/ AgentSleeps \/ AgentExits
  \/ AgentSends \/ AgentReceives \/ AgentGivesUp \/ AgentFinishes \/ TenSeconds
  \/ DbdStores \/ DbdStops \/ DbdStarts

Spec == Init /\ [][Next]_vars

\* Threads run, slurmdbd and slurmctld are started again after they went down,
\* and locks are handed on.
Fairness ==
  /\ WF_vars(SetConn) /\ WF_vars(CtldRecovered) /\ WF_vars(Join)
  /\ WF_vars(CallEnters) /\ WF_vars(CallReturns)
  /\ WF_vars(AgentStarts) /\ WF_vars(AgentLoops)
  /\ SF_vars(AgentParks \/ AgentSleeps \/ AgentExits \/ AgentSends)
  /\ WF_vars(AgentReceives \/ AgentGivesUp) /\ WF_vars(AgentFinishes)
  /\ WF_vars(TenSeconds) /\ WF_vars(DbdStores) /\ WF_vars(DbdStarts)

FairSpec == Spec /\ Fairness

-----------------------------------------------------------------------------
\* The records slurmctld has to deliver, running or not.
Pending == IF phase = "down" THEN file ELSE list

\* A record that slurmdbd_agent_send put on the list is in the database, or on
\* the list, or in dbd.messages: "Leave item on the queue until processing
\* complete".  What a crash or the documented purge of step records takes is not
\* owed.
OwedKept == owed \subseteq db \cup Range(Pending)

\* The agent implements the ordered stream: through lost answers, late answers
\* on abandoned connections, partial failures of a message, restarts of either
\* daemon and the full list, records come to the database in their order, and
\* none is skipped.  Registrations (DBD_REGISTER_CTLD) are not records to keep.
Owed == INSTANCE RecordStream WITH
          Records <- Tracked,
          pending <- SelectSeq(Pending, LAMBDA r : r \in Tracked \ db),
          stored <- db \cap owed \cap Tracked
RefinesStream == Owed!Spec

\* Every record that is owed is stored in the end: the agent comes back from
\* sleeping, from a call that halted it (halt_agent) and from failures.
AcceptedStored == \A r \in Tracked : (r \in owed) ~> (r \in db \/ r \notin owed)

\* _shutdown_agent returns: wherever the agent is when slurmdbd_shutdown is set,
\* the thread that joins it does not wait for ever.
ShutdownEnds == (phase = "closing") ~> (phase # "closing")

=============================================================================
