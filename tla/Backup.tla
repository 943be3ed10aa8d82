------------------------------- MODULE Backup -------------------------------
(***************************************************************************)
(* Primary and backup controllers (slurmctld/backup.c, heartbeat.c, and    *)
(* the main loop of controller.c).  The controller in control writes a     *)
(* heartbeat file in StateSaveLocation; a standby controller pings those   *)
(* of higher priority and, when none answers, trusts the file before it    *)
(* takes control.  Times are ages in seconds, which is all the code        *)
(* compares; clocks are synchronised, as the heartbeat stamps require, and *)
(* every controller can reach StateSaveLocation, as slurm.conf demands.    *)
(* Pings and requests between controllers may be lost at any time; a ping  *)
(* takes up to PingWait seconds.                                           *)
(***************************************************************************)
EXTENDS Integers, FiniteSets

CONSTANTS LastBackup,     \* controllers have the indices 0 (primary) .. LastBackup
          Timeout,        \* SlurmctldTimeout
          PingWait,       \* MessageTimeout: the longest a ping takes
          AllowTakeover,  \* whether "scontrol takeover" is used
          Reads,          \* whether a read of the heartbeat file succeeds, or may fail
          MaxCrashes      \* how many times a controller fails

VARIABLES role,       \* what each controller does
          hb,         \* the heartbeat file
          beat,       \* age of the last beat of a controller's heartbeat thread
          resp,       \* age of last_controller_response
          ping,       \* age of last_ping
          pinging,    \* ping_controllers() waits for its threads
          prev,       \* prev_heartbeat: zero, the stamp of the file, or an older one
          takeover,   \* the takeover flag, or that the request is being served
          asking,     \* the controllers a REQUEST_CONTROL or REQUEST_SHUTDOWN waits for
          resume,     \* resume_backup: go back to standby after relinquishing
          crashes

vars == <<role, hb, beat, resp, ping, pinging, prev, takeover, asking, resume, crashes>>

Controllers == 0 .. LastBackup
Backups     == 1 .. LastBackup

ASSUME CountAssumption == LastBackup \in Nat /\ MaxCrashes \in Nat
ASSUME TimeoutAssumption == Timeout \in Nat /\ Timeout >= 4 /\ PingWait \in Nat
ASSUME FlagAssumption == AllowTakeover \in BOOLEAN /\ Reads \subseteq BOOLEAN

\* "down"; "waiting" for a heartbeat file; "standby" in the loop of run_backup();
\* "asking" the others to relinquish and "loading" the saved state on the way to
\* control; "active" in control; "leaving" it, saving the state
Role == {"down", "waiting", "standby", "asking", "loading", "active", "leaving"}

Flag == {"no", "asked", "sleep2", "sleep1", "yes"}

BeatTime == IF Timeout \div 4 < 30 THEN Timeout \div 4 ELSE 30
PingTime == Timeout \div 3
Old      == Timeout + 1
Older(age, cap) == IF age < cap THEN age + 1 ELSE age

\* A controller that may write the state.  Its heartbeat thread runs until
\* heartbeat_stop(), the last thing it does when it leaves control.
InControl(c) == role[c] \in {"active", "leaving"}

\* last_controller_response and last_ping live as long as run_backup() loops.
Watching(c) == role[c] \in {"waiting", "standby"}

Init ==
  /\ role = [c \in Controllers |-> "down"]
  /\ hb \in [set : BOOLEAN, age : {Old}, inx : {0}]
  /\ beat = [c \in Controllers |-> 0]
  /\ resp = [c \in Controllers |-> 0]
  /\ ping = [c \in Controllers |-> PingTime]
  /\ pinging = [c \in Controllers |-> FALSE]
  /\ prev = [c \in Controllers |-> "zero"]
  /\ takeover = [c \in Controllers |-> "no"]
  /\ asking = [c \in Controllers |-> {}]
  /\ resume = [c \in Controllers |-> FALSE]
  /\ crashes = 0
-----------------------------------------------------------------------------
(* Time and the heartbeat (heartbeat.c).                                   *)

\* A second passes; a heartbeat thread does not oversleep its timedwait, nor a
\* ping its timeout.
Tick ==
  /\ \A c \in Controllers : InControl(c) => beat[c] < BeatTime
  /\ \A c \in Controllers : pinging[c] => ping[c] < PingWait
  /\ hb' = [hb EXCEPT !.age = Older(@, Old)]
  /\ beat' = [c \in Controllers |-> IF InControl(c) THEN beat[c] + 1 ELSE 0]
  /\ resp' = [c \in Controllers |-> IF Watching(c) THEN Older(resp[c], Old) ELSE 0]
  /\ ping' = [c \in Controllers |-> IF Watching(c) THEN Older(ping[c], PingTime) ELSE PingTime]
  /\ takeover' = [c \in Controllers |-> IF takeover[c] = "sleep2" THEN "sleep1"
                                      ELSE IF takeover[c] = "sleep1" THEN "yes" ELSE takeover[c]]
  /\ UNCHANGED <<role, pinging, prev, asking, resume, crashes>>

\* The file is replaced by rename(): a reader sees the old stamp or the new one.
\* A stamp counts seconds, so two beats in one second are the same stamp.
WriteHeartbeat(c) ==
  /\ hb' = [set |-> TRUE, age |-> 0, inx |-> c]
  /\ beat' = [beat EXCEPT ![c] = 0]
  /\ prev' = [d \in Controllers |->
                IF prev[d] = "file" /\ hb.age > 0 THEN "older" ELSE prev[d]]

HeartBeat(c) ==
  /\ InControl(c)
  /\ beat[c] = BeatTime
  /\ WriteHeartbeat(c)
  /\ UNCHANGED <<role, resp, ping, pinging, takeover, asking, resume, crashes>>
-----------------------------------------------------------------------------
(* Entering and leaving control (controller.c, main loop).                 *)

\* A fresh process: the primary asks the backups to relinquish, a backup
\* enters run_backup().
Start(c) ==
  /\ role[c] = "down"
  /\ role' = [role EXCEPT ![c] = IF c = 0 THEN "asking" ELSE "waiting"]
  /\ asking' = [asking EXCEPT ![c] = IF c = 0 THEN Backups ELSE {}]
  /\ prev' = [prev EXCEPT ![c] = "zero"]
  /\ takeover' = [takeover EXCEPT ![c] = "no"]
  /\ resp' = [resp EXCEPT ![c] = 0]
  /\ ping' = [ping EXCEPT ![c] = PingTime]
  /\ resume' = [resume EXCEPT ![c] = FALSE]
  /\ UNCHANGED <<hb, beat, pinging, crashes>>

\* control_time is set and heartbeat_start() beats at once.
TakeOffice(c) ==
  /\ role' = [role EXCEPT ![c] = "active"]
  /\ WriteHeartbeat(c)

\* The state is read.  The primary has asked the others before; a backup asks
\* all but the primary afterwards.
Loaded(c) ==
  /\ role[c] = "loading"
  /\ IF c = 0
     THEN TakeOffice(c) /\ UNCHANGED asking
     ELSE /\ role' = [role EXCEPT ![c] = "asking"]
          /\ asking' = [asking EXCEPT ![c] = Backups \ {c}]
          /\ UNCHANGED <<hb, beat, prev>>
  /\ UNCHANGED <<resp, ping, pinging, takeover, resume, crashes>>

\* _shutdown_backup_controller() returns, whatever the answers were.
Asked(c) ==
  /\ role[c] = "asking"
  /\ asking[c] = {}
  /\ IF c = 0
     THEN role' = [role EXCEPT ![c] = "loading"] /\ UNCHANGED <<hb, beat, prev>>
     ELSE TakeOffice(c)
  /\ UNCHANGED <<resp, ping, pinging, takeover, asking, resume, crashes>>

\* mutant: the loop over the backups ends one too early
Reassert_SkipsLast ==
  /\ role[0] = "active"
  /\ asking[0] = {}
  /\ asking' = [asking EXCEPT ![0] = Backups \ {LastBackup}]
  /\ UNCHANGED <<role, hb, beat, resp, ping, pinging, prev, takeover, resume, crashes>>

\* The primary reasserts itself every SlurmctldTimeout.
Reassert ==
  /\ role[0] = "active"
  /\ asking[0] = {}
  /\ asking' = [asking EXCEPT ![0] = Backups]
  /\ UNCHANGED <<role, hb, beat, resp, ping, pinging, prev, takeover, resume, crashes>>

\* A request reaches controller d: REQUEST_SHUTDOWN when it has a higher
\* priority than the sender c, REQUEST_CONTROL otherwise.  A controller that is
\* waiting, asking or loading does not listen.  The sender may time out before
\* d is done.
Deliver(c, d) ==
  /\ role[c] # "down" /\ d \in asking[c]
  /\ asking' = [asking EXCEPT ![c] = @ \ {d}]
  /\ role' = [role EXCEPT ![d] = IF @ = "active" THEN "leaving"
                                 ELSE IF @ = "standby" /\ c > d THEN "down" ELSE @]
  /\ resume' = [resume EXCEPT ![d] = @ \/ (InControl(d) /\ c < d)]
  /\ resp' = [resp EXCEPT ![d] = IF role[d] = "standby" /\ c < d THEN 0 ELSE @]
  /\ pinging' = [pinging EXCEPT ![d] = @ /\ (role[d] = "standby" => c < d)]
  /\ UNCHANGED <<hb, beat, ping, prev, takeover, crashes>>

\* A request or its reply is lost, or times out.
Unreachable(c, d) ==
  /\ role[c] # "down" /\ d \in asking[c]
  /\ asking' = [asking EXCEPT ![c] = @ \ {d}]
  /\ UNCHANGED <<role, hb, beat, resp, ping, pinging, prev, takeover, resume, crashes>>

\* The state is saved and the heartbeat stopped; a backup that was asked to
\* relinquish enters run_backup() again.  prev_heartbeat is static.
Left(c) ==
  /\ role[c] = "leaving"
  /\ role' = [role EXCEPT ![c] = IF resume[c] /\ c # 0 THEN "waiting" ELSE "down"]
  /\ resume' = [resume EXCEPT ![c] = FALSE]
  /\ takeover' = [takeover EXCEPT ![c] = "no"]
  /\ resp' = [resp EXCEPT ![c] = 0]
  /\ ping' = [ping EXCEPT ![c] = PingTime]
  /\ asking' = [asking EXCEPT ![c] = {}]
  /\ UNCHANGED <<hb, beat, pinging, prev, crashes>>

\* The process or its machine fails.
Crash(c) ==
  /\ crashes < MaxCrashes
  /\ role[c] # "down"
  /\ crashes' = crashes + 1
  /\ role' = [role EXCEPT ![c] = "down"]
  /\ asking' = [asking EXCEPT ![c] = {}]
  /\ pinging' = [pinging EXCEPT ![c] = FALSE]
  /\ UNCHANGED <<hb, beat, resp, ping, prev, takeover, resume>>
-----------------------------------------------------------------------------
(* The standby controller (run_backup() and on_backup_msg()).              *)

\* The heartbeat file exists: start to ping.
Watch(c) ==
  /\ role[c] = "waiting"
  /\ hb.set
  /\ role' = [role EXCEPT ![c] = "standby"]
  /\ UNCHANGED <<hb, beat, resp, ping, pinging, prev, takeover, asking, resume, crashes>>

\* mutant: the test of last_ping is missing
SendPing_EveryLoop(c) ==
  /\ role[c] = "standby" /\ ~pinging[c]
  /\ pinging' = [pinging EXCEPT ![c] = TRUE]
  /\ ping' = [ping EXCEPT ![c] = 0]
  /\ UNCHANGED <<role, hb, beat, resp, prev, takeover, asking, resume, crashes>>

\* last_ping is set and ping_controllers() sends its pings.
SendPing(c) ==
  /\ role[c] = "standby" /\ ~pinging[c]
  /\ takeover[c] = "yes" \/ ping[c] = PingTime
  /\ pinging' = [pinging EXCEPT ![c] = TRUE]
  /\ ping' = [ping EXCEPT ![c] = 0]
  /\ UNCHANGED <<role, hb, beat, resp, prev, takeover, asking, resume, crashes>>

\* A controller of higher priority, in control or able to take it, answers.
PingAnswered(c) ==
  /\ pinging[c]
  /\ \E d \in Controllers : d < c /\ role[d] \in {"standby", "active", "leaving"}
  /\ pinging' = [pinging EXCEPT ![c] = FALSE]
  /\ resp' = [resp EXCEPT ![c] = 0]
  /\ UNCHANGED <<role, hb, beat, ping, prev, takeover, asking, resume, crashes>>

\* The time the timeout counts from: the last answer, or the last heartbeat if
\* a controller of higher priority wrote it later.
UseTime(c) == IF hb.inx <= c /\ hb.age < resp[c] THEN hb.age ELSE resp[c]

\* mutant: the stamp is not compared with the previous one
AbortTakeover_IfUnreadable(c, readable) == ~readable

\* Whether the file forbids to take control: not readable, not seen before, or
\* changed since it was last seen.
AbortTakeover(c, readable) == ~readable \/ prev[c] # "file"

\* mutant: the stamp that was read is not kept
KeepHeartbeat_Never(readable, takes) == "zero"

\* What prev_heartbeat becomes
KeepHeartbeat(readable, takes) == IF takes \/ ~readable THEN "zero" ELSE "file"

\* No answer.  A read of the file may fail.
PingUnanswered(c, readable) ==
  LET takes == takeover[c] = "yes" \/ (UseTime(c) > Timeout /\ ~AbortTakeover(c, readable))
  IN  /\ pinging[c]
      /\ pinging' = [pinging EXCEPT ![c] = FALSE]
      /\ role' = IF takes THEN [role EXCEPT ![c] = "loading"] ELSE role
      /\ prev' = IF takeover[c] = "yes" THEN prev
                 ELSE [prev EXCEPT ![c] = KeepHeartbeat(readable, takes)]
      /\ UNCHANGED <<hb, beat, resp, ping, takeover, asking, resume, crashes>>

\* REQUEST_TAKEOVER ("scontrol takeover"): the others are told to go, and the
\* flag is set SHUTDOWN_WAIT seconds after they have answered or timed out.
TakeoverRequest(c) ==
  /\ AllowTakeover
  /\ role[c] = "standby" /\ takeover[c] = "no"
  /\ asking' = [asking EXCEPT ![c] = Controllers \ {c}]
  /\ takeover' = [takeover EXCEPT ![c] = "asked"]
  /\ UNCHANGED <<role, hb, beat, resp, ping, pinging, prev, resume, crashes>>

TakeoverAnswered(c) ==
  /\ role[c] # "down" /\ takeover[c] = "asked" /\ asking[c] = {}
  /\ takeover' = [takeover EXCEPT ![c] = "sleep2"]
  /\ UNCHANGED <<role, hb, beat, resp, ping, pinging, prev, asking, resume, crashes>>
-----------------------------------------------------------------------------
Request(c) == \E d \in Controllers : Deliver(c, d) \/ Unreachable(c, d)
Poll(c) == PingAnswered(c) \/ \E readable \in Reads : PingUnanswered(c, readable)

Next ==
  \/ Tick
  \/ Reassert
  \/ \E c \in Controllers :
       \/ HeartBeat(c) \/ Start(c) \/ Loaded(c) \/ Asked(c) \/ Left(c) \/ Crash(c)
       \/ Request(c)
  \/ \E c \in Backups :
       Watch(c) \/ SendPing(c) \/ Poll(c) \/ TakeoverRequest(c) \/ TakeoverAnswered(c)

Spec == Init /\ [][Next]_vars

\* Processes run, time passes, a request arrives or times out, and that of the
\* primary, which is sent again and again, arrives in the end.  Nothing makes a
\* failed controller start again.
Fairness ==
  /\ WF_vars(Tick) /\ WF_vars(Reassert)
  /\ \A c \in Controllers : /\ WF_vars(HeartBeat(c)) /\ WF_vars(Request(c))
                            /\ WF_vars(Loaded(c)) /\ WF_vars(Asked(c)) /\ WF_vars(Left(c))
  /\ \A c \in Backups : /\ WF_vars(Watch(c)) /\ WF_vars(SendPing(c)) /\ WF_vars(Poll(c))
                        /\ SF_vars(Deliver(0, c))
FairSpec == Spec /\ Fairness
-----------------------------------------------------------------------------
(* Properties.                                                             *)

TypeOK ==
  /\ role \in [Controllers -> Role]
  /\ hb \in [set : BOOLEAN, age : 0 .. Old, inx : Controllers]
  /\ beat \in [Controllers -> 0 .. BeatTime]
  /\ resp \in [Controllers -> 0 .. Old]
  /\ ping \in [Controllers -> 0 .. PingTime]
  /\ pinging \in [Controllers -> BOOLEAN]
  /\ prev \in [Controllers -> {"zero", "file", "older"}]
  /\ takeover \in [Controllers -> Flag]
  /\ asking \in [Controllers -> SUBSET Controllers]
  /\ resume \in [Controllers -> BOOLEAN]
  /\ crashes \in 0 .. MaxCrashes

\* The heartbeat keeps a standby controller from taking control by its own
\* decision (not by "scontrol takeover") while another one is in control or still
\* saves its state, however many pings are lost: "will prevent the backup
\* controller from assuming control in periods of high load [...] or if the
\* network path between primary <-> backup is lost".
HeartbeatPreventsTakeover ==
  [][\A c \in Backups :
       (role[c] = "standby" /\ role'[c] = "loading" /\ takeover[c] # "yes") =>
         \A d \in Controllers : ~InControl(d)]_vars

\* Two looks at the file are far enough apart for a beat to fall between them.
Spaced == BeatTime + PingWait < PingTime

\* Why it does: the file is never older than the last beat of a controller in
\* control, and a stamp that a standby controller finds a second time is, by the
\* pauses between pings, older than that.
ControllerOK(c) ==
  /\ InControl(c) => hb.age <= beat[c]
  /\ pinging[c] => role[c] = "standby"
  /\ ~AllowTakeover =>
       /\ takeover[c] = "no"
       /\ role[c] \notin {"standby", "down"} => prev[c] = "zero"
       /\ Spaced =>
            /\ pinging[c] => ping[c] <= PingWait
            /\ (role[c] = "standby" /\ prev[c] = "file") =>
                 hb.age + PingWait >= IF pinging[c] THEN PingTime ELSE ping[c]
IInv == TypeOK /\ \A c \in Controllers : ControllerOK(c)

\* run_backup() ends when nobody is in control: as long as a standby controller
\* runs, it or another controller takes control once two looks in a row find the
\* same stamp.
FailoverHappens ==
  \A c \in Backups :
    role[c] = "standby" ~> (role[c] = "down" \/ \E d \in Controllers : role[d] = "active")

\* Two controllers that both took control do not both keep it: the requests of
\* _shutdown_backup_controller() make one of them relinquish.
ControlSettles ==
  \A c, d \in Controllers :
    c < d => (role[c] = "active" /\ role[d] = "active" ~> role[c] # "active" \/ role[d] # "active")
=============================================================================
