---------------------------- MODULE BackupProofs ----------------------------
(***************************************************************************)
(* Proofs about Backup: its types, and that the heartbeat keeps a standby  *)
(* controller from taking control while another one has it.                *)
(***************************************************************************)
EXTENDS Backup, TLAPS

\* The intervals heartbeat.c and backup.c derive from SlurmctldTimeout
LEMMA Intervals ==
  /\ BeatTime \in Nat /\ BeatTime > 0 /\ BeatTime <= Timeout
  /\ PingTime \in Nat /\ PingTime <= Timeout
  /\ Old = Timeout + 1 /\ Timeout \in Nat /\ PingWait \in Nat
  /\ LastBackup \in Nat /\ MaxCrashes \in Nat
BY TimeoutAssumption, CountAssumption, SMT DEF BeatTime, PingTime, Old

LEMMA Indices ==
  /\ Backups \subseteq Controllers
  /\ 0 \in Controllers
  /\ \A c \in Controllers : c \in Int
  /\ \A c \in Backups : c # 0
BY Intervals, SMT DEF Controllers, Backups

\* Init gives every variable its type.
LEMMA InitTypeOK == Init => TypeOK
<1> SUFFICES ASSUME Init PROVE TypeOK
  OBVIOUS
<1>1. hb \in [set : BOOLEAN, age : 0 .. Old, inx : Controllers]
  <2>1. Old \in 0 .. Old
    BY Intervals, SMT
  <2> QED
    BY <2>1, Indices, Zenon DEF Init
<1>2. beat \in [Controllers -> 0 .. BeatTime] /\ resp \in [Controllers -> 0 .. Old]
      /\ ping \in [Controllers -> 0 .. PingTime] /\ crashes \in 0 .. MaxCrashes
  BY Intervals, SMT DEF Init
<1>3. /\ role \in [Controllers -> Role]
      /\ prev \in [Controllers -> {"zero", "file", "older"}]
      /\ takeover \in [Controllers -> Flag]
      /\ asking \in [Controllers -> SUBSET Controllers]
  BY SMT DEF Init, Role, Flag
<1>4. pinging \in [Controllers -> BOOLEAN] /\ resume \in [Controllers -> BOOLEAN]
  BY Zenon DEF Init
<1> QED
  BY <1>1, <1>2, <1>3, <1>4, Zenon DEF TypeOK

\* The heartbeat file keeps its type when a controller writes it.
LEMMA WriteType ==
  ASSUME TypeOK, NEW c \in Controllers, WriteHeartbeat(c)
  PROVE  /\ hb' \in [set : BOOLEAN, age : 0 .. Old, inx : Controllers]
         /\ beat' \in [Controllers -> 0 .. BeatTime]
         /\ prev' \in [Controllers -> {"zero", "file", "older"}]
<1>1. 0 \in 0 .. Old /\ 0 \in 0 .. BeatTime
  BY Intervals, SMT
<1>2. hb' \in [set : BOOLEAN, age : 0 .. Old, inx : Controllers]
  BY <1>1, Zenon DEF WriteHeartbeat
<1>3. beat' \in [Controllers -> 0 .. BeatTime]
  BY <1>1, SMT DEF WriteHeartbeat, TypeOK
<1>4. prev' \in [Controllers -> {"zero", "file", "older"}]
  BY SMT DEF WriteHeartbeat, TypeOK
<1> QED
  BY <1>2, <1>3, <1>4

\* Every step keeps every variable in its type.
LEMMA NextTypeOK == TypeOK /\ [Next]_vars => TypeOK'
<1> SUFFICES ASSUME TypeOK, [Next]_vars PROVE TypeOK'
  OBVIOUS
<1> USE Indices
<1>1. CASE Tick
  <2>1. hb' \in [set : BOOLEAN, age : 0 .. Old, inx : Controllers]
    <3> DEFINE a == Older(hb.age, Old)
    <3>1. hb.age \in 0 .. Old
      BY Zenon DEF TypeOK
    <3>2. a \in 0 .. Old
      BY <3>1, Intervals, SMT DEF Older
    <3>3. hb' = [hb EXCEPT !.age = a]
      BY <1>1, Zenon DEF Tick
    <3> HIDE DEF a
    <3> QED
      BY <3>2, <3>3, Zenon DEF TypeOK
  <2>2. beat' \in [Controllers -> 0 .. BeatTime]
    BY <1>1, Intervals, SMT DEF Tick, TypeOK
  <2>3. resp' \in [Controllers -> 0 .. Old] /\ ping' \in [Controllers -> 0 .. PingTime]
    BY <1>1, Intervals, SMT DEF Tick, TypeOK, Older
  <2>4. takeover' \in [Controllers -> Flag]
    BY <1>1, SMT DEF Tick, TypeOK, Flag
  <2> QED
    BY <1>1, <2>1, <2>2, <2>3, <2>4, Zenon DEF Tick, TypeOK
<1>2. CASE Reassert
  <2>1. asking' \in [Controllers -> SUBSET Controllers]
    BY <1>2, SMT DEF Reassert, TypeOK
  <2> QED
    BY <1>2, <2>1, Zenon DEF Reassert, TypeOK
<1>3. ASSUME NEW c \in Controllers, HeartBeat(c) PROVE TypeOK'
  BY <1>3, WriteType, Zenon DEF HeartBeat, TypeOK
<1>4. ASSUME NEW c \in Controllers, Start(c) PROVE TypeOK'
  <2>1. role' \in [Controllers -> Role] /\ prev' \in [Controllers -> {"zero", "file", "older"}]
        /\ takeover' \in [Controllers -> Flag]
        /\ asking' \in [Controllers -> SUBSET Controllers]
    BY <1>4, SMT DEF Start, TypeOK, Role, Flag
  <2>2. resp' \in [Controllers -> 0 .. Old] /\ ping' \in [Controllers -> 0 .. PingTime]
    BY <1>4, Intervals, SMT DEF Start, TypeOK
  <2>3. resume' \in [Controllers -> BOOLEAN]
    BY <1>4, Zenon DEF Start, TypeOK
  <2> QED
    BY <1>4, <2>1, <2>2, <2>3, Zenon DEF Start, TypeOK
<1>5. ASSUME NEW c \in Controllers, Loaded(c) PROVE TypeOK'
  <2>1. CASE c = 0
    <3>1. TakeOffice(c) /\ UNCHANGED asking
      BY <1>5, <2>1, Zenon DEF Loaded
    <3>2. role' \in [Controllers -> Role]
      BY <3>1, SMT DEF TakeOffice, TypeOK, Role
    <3> QED
      BY <1>5, <3>1, <3>2, WriteType, Zenon DEF Loaded, TakeOffice, TypeOK
  <2>2. CASE c # 0
    <3>1. role' \in [Controllers -> Role] /\ asking' \in [Controllers -> SUBSET Controllers]
          /\ UNCHANGED <<hb, beat, prev>>
      BY <1>5, <2>2, SMT DEF Loaded, TypeOK, Role
    <3> QED
      BY <1>5, <3>1, Zenon DEF Loaded, TypeOK
  <2> QED
    BY <2>1, <2>2, Zenon
<1>6. ASSUME NEW c \in Controllers, Asked(c) PROVE TypeOK'
  <2>1. CASE c # 0
    <3>1. TakeOffice(c)
      BY <1>6, <2>1, Zenon DEF Asked
    <3>2. role' \in [Controllers -> Role]
      BY <3>1, SMT DEF TakeOffice, TypeOK, Role
    <3> QED
      BY <1>6, <3>1, <3>2, WriteType, Zenon DEF Asked, TakeOffice, TypeOK
  <2>2. CASE c = 0
    <3>1. role' \in [Controllers -> Role] /\ UNCHANGED <<hb, beat, prev>>
      BY <1>6, <2>2, SMT DEF Asked, TypeOK, Role
    <3> QED
      BY <1>6, <3>1, Zenon DEF Asked, TypeOK
  <2> QED
    BY <2>1, <2>2, Zenon
<1>7. ASSUME NEW c \in Controllers, Left(c) PROVE TypeOK'
  <2>1. role' \in [Controllers -> Role] /\ takeover' \in [Controllers -> Flag]
        /\ asking' \in [Controllers -> SUBSET Controllers]
    BY <1>7, SMT DEF Left, TypeOK, Role, Flag
  <2>2. resp' \in [Controllers -> 0 .. Old] /\ ping' \in [Controllers -> 0 .. PingTime]
    BY <1>7, Intervals, SMT DEF Left, TypeOK
  <2>3. resume' \in [Controllers -> BOOLEAN]
    BY <1>7, Zenon DEF Left, TypeOK
  <2> QED
    BY <1>7, <2>1, <2>2, <2>3, Zenon DEF Left, TypeOK
<1>8. ASSUME NEW c \in Controllers, Crash(c) PROVE TypeOK'
  <2>1. role' \in [Controllers -> Role] /\ asking' \in [Controllers -> SUBSET Controllers]
    BY <1>8, SMT DEF Crash, TypeOK, Role
  <2>2. crashes' \in 0 .. MaxCrashes
    BY <1>8, Intervals, SMT DEF Crash, TypeOK
  <2>3. pinging' \in [Controllers -> BOOLEAN]
    BY <1>8, Zenon DEF Crash, TypeOK
  <2> QED
    BY <1>8, <2>1, <2>2, <2>3, Zenon DEF Crash, TypeOK
<1>9. ASSUME NEW c \in Controllers, NEW d \in Controllers, Deliver(c, d) PROVE TypeOK'
  <2>1. role' \in [Controllers -> Role] /\ asking' \in [Controllers -> SUBSET Controllers]
    BY <1>9, SMT DEF Deliver, TypeOK, Role
  <2>2. resp' \in [Controllers -> 0 .. Old]
    BY <1>9, Intervals, SMT DEF Deliver, TypeOK
  <2>3. resume' \in [Controllers -> BOOLEAN] /\ pinging' \in [Controllers -> BOOLEAN]
    BY <1>9, Zenon DEF Deliver, TypeOK
  <2> QED
    BY <1>9, <2>1, <2>2, <2>3, Zenon DEF Deliver, TypeOK
<1>10. ASSUME NEW c \in Controllers, NEW d \in Controllers, Unreachable(c, d) PROVE TypeOK'
  <2>1. asking' \in [Controllers -> SUBSET Controllers]
    BY <1>10, SMT DEF Unreachable, TypeOK
  <2> QED
    BY <1>10, <2>1, Zenon DEF Unreachable, TypeOK
<1>11. ASSUME NEW c \in Controllers, Watch(c) PROVE TypeOK'
  <2>1. role' \in [Controllers -> Role]
    BY <1>11, SMT DEF Watch, TypeOK, Role
  <2> QED
    BY <1>11, <2>1, Zenon DEF Watch, TypeOK
<1>12. ASSUME NEW c \in Controllers, SendPing(c) PROVE TypeOK'
  <2>1. ping' \in [Controllers -> 0 .. PingTime]
    BY <1>12, Intervals, SMT DEF SendPing, TypeOK
  <2>2. pinging' \in [Controllers -> BOOLEAN]
    BY <1>12, Zenon DEF SendPing, TypeOK
  <2> QED
    BY <1>12, <2>1, <2>2, Zenon DEF SendPing, TypeOK
<1>13. ASSUME NEW c \in Controllers, PingAnswered(c) PROVE TypeOK'
  <2>1. resp' \in [Controllers -> 0 .. Old]
    BY <1>13, Intervals, SMT DEF PingAnswered, TypeOK
  <2>2. pinging' \in [Controllers -> BOOLEAN]
    BY <1>13, Zenon DEF PingAnswered, TypeOK
  <2> QED
    BY <1>13, <2>1, <2>2, Zenon DEF PingAnswered, TypeOK
<1>14. ASSUME NEW c \in Controllers, NEW readable \in BOOLEAN, PingUnanswered(c, readable)
       PROVE TypeOK'
  <2>1. role' = role \/ role' = [role EXCEPT ![c] = "loading"]
    BY <1>14, Zenon DEF PingUnanswered
  <2>2. role' \in [Controllers -> Role]
    BY <2>1, SMT DEF TypeOK, Role
  <2>3. \/ prev' = prev
        \/ prev' = [prev EXCEPT ![c] = "zero"] \/ prev' = [prev EXCEPT ![c] = "file"]
    BY <1>14, Zenon DEF PingUnanswered, KeepHeartbeat
  <2>4. prev' \in [Controllers -> {"zero", "file", "older"}]
    BY <2>3, SMT DEF TypeOK
  <2>5. pinging' \in [Controllers -> BOOLEAN]
    BY <1>14, Zenon DEF PingUnanswered, TypeOK
  <2> QED
    BY <1>14, <2>2, <2>4, <2>5, Zenon DEF PingUnanswered, TypeOK
<1>15. ASSUME NEW c \in Controllers, TakeoverRequest(c) PROVE TypeOK'
  <2>1. asking' \in [Controllers -> SUBSET Controllers] /\ takeover' \in [Controllers -> Flag]
    BY <1>15, SMT DEF TakeoverRequest, TypeOK, Flag
  <2> QED
    BY <1>15, <2>1, Zenon DEF TakeoverRequest, TypeOK
<1>16. ASSUME NEW c \in Controllers, TakeoverAnswered(c) PROVE TypeOK'
  <2>1. takeover' \in [Controllers -> Flag]
    BY <1>16, SMT DEF TakeoverAnswered, TypeOK, Flag
  <2> QED
    BY <1>16, <2>1, Zenon DEF TakeoverAnswered, TypeOK
<1>17. CASE UNCHANGED vars
  BY <1>17, Zenon DEF vars, TypeOK
<1>18. Reads \subseteq BOOLEAN
  BY FlagAssumption
<1> QED
  BY <1>1, <1>2, <1>3, <1>4, <1>5, <1>6, <1>7, <1>8, <1>9, <1>10, <1>11, <1>12, <1>13, <1>14,
     <1>15, <1>16, <1>17, <1>18, Zenon DEF Next, Request, Poll

\* The type of one controller's state
LEMMA Typed ==
  ASSUME TypeOK, NEW c \in Controllers
  PROVE  /\ hb.age \in 0 .. Old /\ hb.inx \in Controllers
         /\ beat[c] \in 0 .. BeatTime /\ resp[c] \in 0 .. Old /\ ping[c] \in 0 .. PingTime
<1>1. hb.age \in 0 .. Old /\ hb.inx \in Controllers
  BY Zenon DEF TypeOK
<1> QED
  BY <1>1, Zenon DEF TypeOK

\* A write of the heartbeat file resets every age to zero; a stamp that stays the
\* one a standby controller has seen was written in the same second.
LEMMA WriteOK ==
  ASSUME IInv, NEW c \in Controllers, NEW e \in Controllers, WriteHeartbeat(c), TypeOK'
  PROVE  /\ hb'.age = 0
         /\ beat'[e] \in Nat
         /\ prev'[e] = "zero" <=> prev[e] = "zero"
         /\ prev'[e] = "file" => prev[e] = "file" /\ hb'.age = hb.age
<1>1. hb'.age = 0
  BY SMT DEF WriteHeartbeat
<1>2. beat'[e] \in Nat
  BY Intervals, SMT DEF TypeOK
<1>3. hb.age \in 0 .. Old
  BY Typed, Zenon DEF IInv
<1>4. prev'[e] = IF prev[e] = "file" /\ hb.age > 0 THEN "older" ELSE prev[e]
  BY SMT DEF WriteHeartbeat
<1> QED
  BY <1>1, <1>2, <1>3, <1>4, Intervals, SMT

\* A step that changes neither what a controller does nor what it has seen, and
\* leaves the file alone, keeps it careful.
LEMMA SameOK ==
  ASSUME NEW e \in Controllers, ControllerOK(e),
         role'[e] = role[e], hb' = hb, beat'[e] = beat[e], ping'[e] = ping[e],
         pinging'[e] = pinging[e], prev'[e] = prev[e],
         ~AllowTakeover => takeover'[e] = takeover[e]
  PROVE  ControllerOK(e)'
<1>1. AllowTakeover \in BOOLEAN
  BY FlagAssumption
<1> QED
  BY <1>1, SMT DEF ControllerOK, InControl, Spaced

\* Ages grow together, so the distance between two of them stays.
LEMMA TickOK == ASSUME IInv, Tick, TypeOK', NEW e \in Controllers PROVE ControllerOK(e)'
<1> USE Intervals
<1>1. ControllerOK(e) /\ TypeOK
  BY DEF IInv
<1>2. hb.age \in 0 .. Old /\ beat[e] \in 0 .. BeatTime /\ ping[e] \in 0 .. PingTime
  BY <1>1, Typed
<1>3. hb'.age = IF hb.age < Old THEN hb.age + 1 ELSE hb.age
  BY <1>1, SMT DEF Tick, Older, TypeOK
<1>4. role'[e] = role[e] /\ pinging'[e] = pinging[e] /\ prev'[e] = prev[e]
  BY Zenon DEF Tick
<1>5. InControl(e) => beat'[e] = beat[e] + 1
  BY SMT DEF Tick
<1>6. /\ role[e] = "standby" => ping'[e] = IF ping[e] < PingTime THEN ping[e] + 1 ELSE ping[e]
      /\ pinging[e] => ping[e] < PingWait
  BY SMT DEF Tick, Watching, Older
<1>7. takeover[e] = "no" => takeover'[e] = "no"
  BY SMT DEF Tick
<1>8. InControl(e)' => hb'.age <= beat'[e]
  BY <1>1, <1>2, <1>3, <1>4, <1>5, SMT DEF ControllerOK, InControl
<1>9. pinging'[e] => role'[e] = "standby"
  BY <1>1, <1>4, Zenon DEF ControllerOK
<1>10. ASSUME Spaced, pinging'[e] PROVE ping'[e] <= PingWait
  BY <1>1, <1>2, <1>4, <1>6, <1>10, SMT DEF ControllerOK, Spaced
<1>11. ASSUME ~AllowTakeover, Spaced, role'[e] = "standby", prev'[e] = "file"
       PROVE  hb'.age + PingWait >= IF pinging'[e] THEN PingTime ELSE ping'[e]
  <2>1. hb.age + PingWait >= IF pinging[e] THEN PingTime ELSE ping[e]
    BY <1>1, <1>4, <1>11, Zenon DEF ControllerOK
  <2>2. CASE pinging[e]
    BY <1>2, <1>3, <1>4, <2>1, <2>2, SMT
  <2>3. CASE ~pinging[e]
    BY <1>2, <1>3, <1>4, <1>6, <1>11, <2>1, <2>3, SMT
  <2> QED
    BY <2>2, <2>3, Zenon
<1>12. ~AllowTakeover => /\ takeover'[e] = "no"
                         /\ role'[e] \notin {"standby", "down"} => prev'[e] = "zero"
  BY <1>1, <1>4, <1>7, Zenon DEF ControllerOK
<1>13. Spaced' <=> Spaced
  BY DEF Spaced, BeatTime, PingTime
<1> QED
  BY <1>8, <1>9, <1>10, <1>11, <1>12, <1>13, Zenon DEF ControllerOK

\* A beat makes the file as young as it gets.
LEMMA BeatOK ==
  ASSUME IInv, TypeOK', NEW c \in Controllers, WriteHeartbeat(c), NEW e \in Controllers,
         ping' = ping, pinging' = pinging, takeover' = takeover,
         role'[e] = role[e] \/ (e = c /\ role[c] \in {"loading", "asking"} /\ role'[c] = "active")
  PROVE  ControllerOK(e)'
<1>1. ControllerOK(e) /\ TypeOK
  BY DEF IInv
<1>2. hb'.age = 0 /\ beat'[e] \in Nat /\ (prev'[e] = "zero" <=> prev[e] = "zero")
      /\ (prev'[e] = "file" => prev[e] = "file" /\ hb'.age = hb.age)
  BY WriteOK
<1>3. InControl(e)' => hb'.age <= beat'[e]
  BY <1>2, SMT
<1>4. CASE role'[e] = role[e]
  BY <1>1, <1>2, <1>3, <1>4, Zenon DEF ControllerOK, Spaced, BeatTime, PingTime
<1>5. CASE e = c /\ role[c] \in {"loading", "asking"} /\ role'[c] = "active"
  <2>1. ~pinging'[e] /\ role'[e] = "active"
    BY <1>1, <1>5, SMT DEF ControllerOK
  <2>2. ~AllowTakeover => takeover'[e] = "no" /\ prev'[e] = "zero"
    BY <1>1, <1>2, <1>5, SMT DEF ControllerOK
  <2>3. role'[e] # "standby"
    BY <2>1
  <2> QED
    BY <1>3, <2>1, <2>2, <2>3, Zenon DEF ControllerOK
<1> QED
  BY <1>4, <1>5

\* Every step keeps every controller careful.
LEMMA NextOK == IInv /\ [Next]_vars => IInv'
<1> SUFFICES ASSUME IInv, [Next]_vars, NEW e \in Controllers PROVE ControllerOK(e)'
  BY NextTypeOK, Zenon DEF IInv
<1>1. TypeOK /\ ControllerOK(e) /\ TypeOK'
  BY NextTypeOK, Zenon DEF IInv
<1>2. CASE Tick
  BY <1>1, <1>2, TickOK
<1>3. CASE Reassert
  BY <1>1, <1>3, SameOK, Zenon DEF Reassert
<1>4. ASSUME NEW c \in Controllers, HeartBeat(c) PROVE ControllerOK(e)'
  BY <1>1, <1>4, BeatOK, Zenon DEF HeartBeat
<1>5. ASSUME NEW c \in Controllers, Start(c) PROVE ControllerOK(e)'
  <2>1. CASE e # c
    <3>1. role'[e] = role[e] /\ hb' = hb /\ beat'[e] = beat[e] /\ ping'[e] = ping[e]
          /\ pinging'[e] = pinging[e] /\ prev'[e] = prev[e] /\ takeover'[e] = takeover[e]
      BY <1>1, <1>5, <2>1, SMT DEF Start, TypeOK
    <3> QED
      BY <1>1, <3>1, SameOK
  <2>2. CASE e = c
    <3>1. role[e] = "down" /\ role'[e] \in {"asking", "waiting"} /\ prev'[e] = "zero"
          /\ takeover'[e] = "no" /\ pinging'[e] = pinging[e]
      BY <1>1, <1>5, <2>2, SMT DEF Start, TypeOK
    <3> QED
      BY <1>1, <3>1, SMT DEF ControllerOK, InControl
  <2> QED
    BY <2>1, <2>2
<1>6. ASSUME NEW c \in Controllers, Loaded(c) PROVE ControllerOK(e)'
  <2>1. CASE c = 0
    <3>1. WriteHeartbeat(c) /\ ping' = ping /\ pinging' = pinging /\ takeover' = takeover
          /\ role' = [role EXCEPT ![c] = "active"] /\ role[c] = "loading"
      BY <1>6, <2>1, Zenon DEF Loaded, TakeOffice
    <3>2. role'[e] = role[e] \/ (e = c /\ role'[c] = "active")
      BY <1>1, <3>1, SMT DEF TypeOK
    <3> QED
      BY <1>1, <3>1, <3>2, BeatOK, Zenon
  <2>2. CASE c # 0
    <3>1. hb' = hb /\ beat' = beat /\ ping' = ping /\ pinging' = pinging /\ prev' = prev
          /\ takeover' = takeover
          /\ role' = [role EXCEPT ![c] = "asking"] /\ role[c] = "loading"
      BY <1>6, <2>2, Zenon DEF Loaded
    <3>2. CASE e # c
      <4>1. role'[e] = role[e]
        BY <1>1, <3>1, <3>2, SMT DEF TypeOK
      <4> QED
        BY <1>1, <3>1, <4>1, SameOK, Zenon
    <3>3. CASE e = c
      <4>1. role[e] = "loading" /\ role'[e] = "asking"
        BY <1>1, <3>1, <3>3, SMT DEF TypeOK
      <4> QED
        BY <1>1, <3>1, <4>1, SMT DEF ControllerOK, InControl
    <3> QED
      BY <3>2, <3>3
  <2> QED
    BY <2>1, <2>2
<1>7. ASSUME NEW c \in Controllers, Asked(c) PROVE ControllerOK(e)'
  <2>1. CASE c # 0
    <3>1. WriteHeartbeat(c) /\ ping' = ping /\ pinging' = pinging /\ takeover' = takeover
          /\ role' = [role EXCEPT ![c] = "active"] /\ role[c] = "asking"
      BY <1>7, <2>1, Zenon DEF Asked, TakeOffice
    <3>2. role'[e] = role[e] \/ (e = c /\ role'[c] = "active")
      BY <1>1, <3>1, SMT DEF TypeOK
    <3> QED
      BY <1>1, <3>1, <3>2, BeatOK, Zenon
  <2>2. CASE c = 0
    <3>1. hb' = hb /\ beat' = beat /\ ping' = ping /\ pinging' = pinging /\ prev' = prev
          /\ takeover' = takeover
          /\ role' = [role EXCEPT ![c] = "loading"] /\ role[c] = "asking"
      BY <1>7, <2>2, Zenon DEF Asked
    <3>2. CASE e # c
      <4>1. role'[e] = role[e]
        BY <1>1, <3>1, <3>2, SMT DEF TypeOK
      <4> QED
        BY <1>1, <3>1, <4>1, SameOK, Zenon
    <3>3. CASE e = c
      <4>1. role[e] = "asking" /\ role'[e] = "loading"
        BY <1>1, <3>1, <3>3, SMT DEF TypeOK
      <4> QED
        BY <1>1, <3>1, <4>1, SMT DEF ControllerOK, InControl
    <3> QED
      BY <3>2, <3>3
  <2> QED
    BY <2>1, <2>2
<1>8. ASSUME NEW c \in Controllers, Left(c) PROVE ControllerOK(e)'
  <2>1. CASE e # c
    <3>1. role'[e] = role[e] /\ hb' = hb /\ beat'[e] = beat[e] /\ ping'[e] = ping[e]
          /\ pinging'[e] = pinging[e] /\ prev'[e] = prev[e] /\ takeover'[e] = takeover[e]
      BY <1>1, <1>8, <2>1, SMT DEF Left, TypeOK
    <3> QED
      BY <1>1, <3>1, SameOK
  <2>2. CASE e = c
    <3>1. role[e] = "leaving" /\ role'[e] \in {"waiting", "down"} /\ prev'[e] = prev[e]
          /\ takeover'[e] = "no" /\ pinging'[e] = pinging[e]
      BY <1>1, <1>8, <2>2, SMT DEF Left, TypeOK
    <3> QED
      BY <1>1, <3>1, SMT DEF ControllerOK, InControl
  <2> QED
    BY <2>1, <2>2
<1>9. ASSUME NEW c \in Controllers, Crash(c) PROVE ControllerOK(e)'
  <2>1. CASE e # c
    <3>1. role'[e] = role[e] /\ hb' = hb /\ beat'[e] = beat[e] /\ ping'[e] = ping[e]
          /\ pinging'[e] = pinging[e] /\ prev'[e] = prev[e] /\ takeover'[e] = takeover[e]
      BY <1>1, <1>9, <2>1, SMT DEF Crash, TypeOK
    <3> QED
      BY <1>1, <3>1, SameOK
  <2>2. CASE e = c
    <3>1. role'[e] = "down" /\ takeover'[e] = takeover[e]
      BY <1>1, <1>9, <2>2, SMT DEF Crash, TypeOK
    <3>2. ~pinging'[e]
      BY <1>1, <1>9, <2>2, Zenon DEF Crash, TypeOK
    <3> QED
      BY <1>1, <3>1, <3>2, SMT DEF ControllerOK, InControl
  <2> QED
    BY <2>1, <2>2
<1>10. ASSUME NEW c \in Controllers, NEW d \in Controllers, Deliver(c, d) PROVE ControllerOK(e)'
  <2>1. hb' = hb /\ beat' = beat /\ ping' = ping /\ prev' = prev /\ takeover' = takeover
    BY <1>10, Zenon DEF Deliver
  <2>2. CASE e # d
    <3>1. role'[e] = role[e] /\ pinging'[e] = pinging[e]
      BY <1>1, <1>10, <2>2, SMT DEF Deliver, TypeOK
    <3> QED
      BY <1>1, <2>1, <3>1, SameOK, Zenon
  <2>3. CASE e = d
    <3>1. \/ role'[e] = role[e]
          \/ role[e] = "active" /\ role'[e] = "leaving"
          \/ role[e] = "standby" /\ c > d /\ role'[e] = "down"
      BY <1>1, <1>10, <2>3, SMT DEF Deliver, TypeOK
    <3>2. pinging'[e] <=> (pinging[e] /\ (role[e] = "standby" => c < d))
      BY <1>1, <1>10, <2>3, Zenon DEF Deliver, TypeOK
    <3>3. pinging[e] => role[e] = "standby"
      BY <1>1 DEF ControllerOK
    <3>4. CASE role'[e] = role[e] /\ role[e] = "standby" /\ ~(c < d)
      <4>1. ~(c > d)
        BY <1>1, <1>10, <2>3, <3>4, SMT DEF Deliver, TypeOK
      <4>2. c = d /\ ~pinging'[e]
        BY <3>2, <3>4, <4>1, Indices, SMT
      <4> QED
        BY <1>1, <2>1, <3>4, <4>2, SMT, Intervals, Typed DEF ControllerOK, InControl, Spaced
    <3>5. CASE role'[e] = role[e] /\ ~(role[e] = "standby" /\ ~(c < d))
      <4>1. pinging'[e] <=> pinging[e]
        BY <3>2, <3>5, Zenon
      <4>2. pinging'[e] = pinging[e]
        BY <1>1, <4>1, Zenon DEF TypeOK
      <4> QED
        BY <1>1, <2>1, <3>5, <4>2, SameOK, Zenon
    <3>6. CASE role[e] = "active" /\ role'[e] = "leaving"
      <4>1. ~pinging'[e]
        BY <3>2, <3>3, <3>6, SMT
      <4> QED
        BY <1>1, <2>1, <3>6, <4>1, SMT DEF ControllerOK, InControl
    <3>7. CASE role[e] = "standby" /\ c > d /\ role'[e] = "down"
      <4>1. ~(c < d)
        BY <3>7, Indices, SMT
      <4>2. ~pinging'[e]
        BY <3>2, <3>7, <4>1, Zenon
      <4> QED
        BY <1>1, <2>1, <3>7, <4>2, SMT DEF ControllerOK, InControl
    <3> QED
      BY <3>1, <3>4, <3>5, <3>6, <3>7, Zenon
  <2> QED
    BY <2>2, <2>3
<1>11. ASSUME NEW c \in Controllers, NEW d \in Controllers, Unreachable(c, d)
       PROVE  ControllerOK(e)'
  BY <1>1, <1>11, SameOK, Zenon DEF Unreachable
<1>12. ASSUME NEW c \in Controllers, Watch(c) PROVE ControllerOK(e)'
  <2>1. hb' = hb /\ beat' = beat /\ ping' = ping /\ pinging' = pinging /\ prev' = prev
        /\ takeover' = takeover
    BY <1>12, Zenon DEF Watch
  <2>2. CASE e # c
    <3>1. role'[e] = role[e]
      BY <1>1, <1>12, <2>2, SMT DEF Watch, TypeOK
    <3> QED
      BY <1>1, <2>1, <3>1, SameOK, Zenon
  <2>3. CASE e = c
    <3>1. role[e] = "waiting" /\ role'[e] = "standby"
      BY <1>1, <1>12, <2>3, SMT DEF Watch, TypeOK
    <3> QED
      BY <1>1, <2>1, <3>1, SMT DEF ControllerOK, InControl
  <2> QED
    BY <2>2, <2>3
<1>13. ASSUME NEW c \in Controllers, SendPing(c) PROVE ControllerOK(e)'
  <2>1. role' = role /\ hb' = hb /\ beat' = beat /\ prev' = prev /\ takeover' = takeover
    BY <1>13, Zenon DEF SendPing
  <2>2. CASE e # c
    <3>1. ping'[e] = ping[e] /\ pinging'[e] = pinging[e]
      BY <1>1, <1>13, <2>2, SMT DEF SendPing, TypeOK
    <3> QED
      BY <1>1, <2>1, <3>1, SameOK, Zenon
  <2>3. CASE e = c
    <3>1. role[e] = "standby" /\ ping'[e] = 0 /\ (takeover[e] = "yes" \/ ping[e] = PingTime)
      BY <1>1, <1>13, <2>3, SMT DEF SendPing, TypeOK
    <3>2. ~pinging[e] /\ pinging'[e]
      BY <1>1, <1>13, <2>3, Zenon DEF SendPing, TypeOK
    <3> QED
      BY <1>1, <2>1, <3>1, <3>2, Intervals, SMT DEF ControllerOK, InControl, Spaced
  <2> QED
    BY <2>2, <2>3
<1>14. ASSUME NEW c \in Controllers, pinging[c], pinging' = [pinging EXCEPT ![c] = FALSE],
              hb' = hb, beat' = beat, ping' = ping, takeover' = takeover,
              role'[e] = role[e] \/ (e = c /\ role'[e] = "loading" /\ (~AllowTakeover => prev'[e] = "zero")),
              prev'[e] = prev[e] \/ (e = c /\ prev'[e] \in {"zero", "file"})
       PROVE  ControllerOK(e)'
  <2>1. CASE e # c
    <3>1. pinging'[e] = pinging[e]
      BY <1>1, <1>14, <2>1, SMT DEF TypeOK
    <3> QED
      BY <1>1, <1>14, <2>1, <3>1, SameOK, Zenon
  <2>2. CASE e = c
    <3>1. ~pinging'[e] /\ pinging[e]
      BY <1>1, <1>14, <2>2, Zenon DEF TypeOK
    <3>2. role[e] = "standby"
      BY <1>1, <3>1, Zenon DEF ControllerOK
    <3>3. hb.age \in Nat /\ ping[e] \in Nat
      BY <1>1, Typed, Intervals, SMT
    <3> QED
      BY <1>1, <1>14, <3>1, <3>2, <3>3, Intervals, SMT DEF ControllerOK, InControl, Spaced
  <2> QED
    BY <2>1, <2>2
<1>15. ASSUME NEW c \in Controllers, PingAnswered(c) PROVE ControllerOK(e)'
  BY <1>14, <1>15, Zenon DEF PingAnswered
<1>16. ASSUME NEW c \in Controllers, NEW readable \in BOOLEAN, PingUnanswered(c, readable)
       PROVE  ControllerOK(e)'
  <2> DEFINE takes == takeover[c] = "yes" \/ (UseTime(c) > Timeout /\ ~AbortTakeover(c, readable))
  <2>1. /\ role' = IF takes THEN [role EXCEPT ![c] = "loading"] ELSE role
        /\ prev' = IF takeover[c] = "yes" THEN prev
                   ELSE [prev EXCEPT ![c] = KeepHeartbeat(readable, takes)]
    BY <1>16, Zenon DEF PingUnanswered
  <2>2. ~AllowTakeover => takeover[c] # "yes"
    <3>1. ControllerOK(c)
      BY DEF IInv
    <3> QED
      BY <3>1, SMT DEF ControllerOK
  <2>3. role'[e] = role[e] \/ (e = c /\ role'[e] = "loading" /\ takes)
    BY <1>1, <2>1, SMT DEF TypeOK
  <2>4. takes /\ ~AllowTakeover => prev' = [prev EXCEPT ![c] = "zero"]
    BY <2>1, <2>2, Zenon DEF KeepHeartbeat
  <2>5. prev' = prev \/ prev' = [prev EXCEPT ![c] = "zero"] \/ prev' = [prev EXCEPT ![c] = "file"]
    BY <2>1, Zenon DEF KeepHeartbeat
  <2> HIDE DEF takes
  <2>6. takes /\ ~AllowTakeover => prev'[c] = "zero"
    BY <1>1, <2>4, SMT DEF TypeOK
  <2>7. prev'[e] = prev[e] \/ (e = c /\ prev'[e] \in {"zero", "file"})
    BY <1>1, <2>5, SMT DEF TypeOK
  <2> QED
    BY <1>14, <1>16, <2>3, <2>6, <2>7, Zenon DEF PingUnanswered
<1>17. ASSUME NEW c \in Controllers, TakeoverRequest(c) PROVE ControllerOK(e)'
  BY <1>1, <1>17, SameOK, Zenon DEF TakeoverRequest
<1>18. ASSUME NEW c \in Controllers, TakeoverAnswered(c) PROVE ControllerOK(e)'
  <2>1. CASE AllowTakeover
    BY <1>1, <1>18, <2>1, SameOK, Zenon DEF TakeoverAnswered
  <2>2. CASE ~AllowTakeover
    <3>1. ControllerOK(c)
      BY DEF IInv
    <3> QED
      BY <1>18, <2>2, <3>1, SMT DEF TakeoverAnswered, ControllerOK
  <2> QED
    BY <2>1, <2>2
<1>19. CASE UNCHANGED vars
  BY <1>1, <1>19, SameOK, Zenon DEF vars
<1>20. Reads \subseteq BOOLEAN /\ Backups \subseteq Controllers
  BY FlagAssumption, Indices
<1> QED
  BY <1>2, <1>3, <1>4, <1>5, <1>6, <1>7, <1>8, <1>9, <1>10, <1>11, <1>12, <1>13, <1>15, <1>16,
     <1>17, <1>18, <1>19, <1>20, Zenon DEF Next, Request, Poll

LEMMA InitOK == Init => IInv
<1> SUFFICES ASSUME Init, NEW c \in Controllers PROVE ControllerOK(c)
  BY InitTypeOK, Zenon DEF IInv
<1>1. role[c] = "down" /\ takeover[c] = "no"
  BY SMT DEF Init
<1>2. ~pinging[c]
  BY Zenon DEF Init
<1> QED
  BY <1>1, <1>2, SMT DEF ControllerOK, InControl

\* A standby controller that gives up waiting sees a file too old, or a stamp
\* too long unchanged, for any controller to be in control.
LEMMA TakingIsSafe ==
  ASSUME IInv, LastBackup = 1 \/ (~AllowTakeover /\ Spaced),
         NEW c \in Backups, NEW readable \in BOOLEAN, PingUnanswered(c, readable),
         role'[c] # role[c], takeover[c] # "yes", NEW d \in Controllers
  PROVE  ~InControl(d)
<1> USE Intervals, Indices
<1>1. TypeOK /\ ControllerOK(c) /\ ControllerOK(d)
  BY DEF IInv
<1>2. UseTime(c) > Timeout /\ ~AbortTakeover(c, readable) /\ pinging[c]
  BY Zenon DEF PingUnanswered
<1>3. prev[c] = "file" /\ role[c] = "standby"
  BY <1>1, <1>2, Zenon DEF AbortTakeover, ControllerOK
<1>4. hb.age \in 0 .. Old /\ beat[d] \in 0 .. BeatTime /\ resp[c] \in 0 .. Old
      /\ hb.inx \in Controllers
  BY <1>1, Typed
<1>5. CASE LastBackup = 1
  <2>1. hb.inx <= c
    BY <1>4, <1>5, SMT DEF Controllers, Backups
  <2>2. hb.age > Timeout
    BY <1>2, <1>4, <2>1, SMT DEF UseTime
  <2> QED
    BY <1>1, <1>4, <2>2, SMT DEF ControllerOK
<1>6. CASE ~AllowTakeover /\ Spaced
  <2>1. hb.age + PingWait >= PingTime
    BY <1>1, <1>2, <1>3, <1>6, SMT DEF ControllerOK
  <2> QED
    BY <1>1, <1>4, <1>6, <2>1, SMT DEF ControllerOK, Spaced
<1> QED
  BY <1>5, <1>6

\* Only an unanswered ping makes a standby controller load the state.
LEMMA OnlyPingsTake ==
  ASSUME TypeOK, [Next]_vars, NEW c \in Backups, role[c] = "standby", role'[c] = "loading"
  PROVE  \E readable \in BOOLEAN : PingUnanswered(c, readable)
<1> USE Indices
<1>1. role'[c] # role[c] /\ role'[c] = "loading" /\ role[c] = "standby"
  BY SMT
<1>2. ASSUME NEW x \in Controllers, NEW v, role' = [role EXCEPT ![x] = v], x # c \/ v # "loading"
      PROVE  FALSE
  BY <1>1, <1>2, SMT DEF TypeOK
<1>3. ASSUME role' = role PROVE FALSE
  BY <1>1, <1>3
<1>4. ~Tick /\ ~Reassert /\ ~(UNCHANGED vars)
  BY <1>3, Zenon DEF Tick, Reassert, vars
<1>5. ASSUME NEW x \in Controllers
      PROVE  /\ ~HeartBeat(x) /\ ~SendPing(x) /\ ~PingAnswered(x)
             /\ ~TakeoverRequest(x) /\ ~TakeoverAnswered(x)
             /\ \A y \in Controllers : ~Unreachable(x, y)
  BY <1>3, Zenon DEF HeartBeat, SendPing, PingAnswered, TakeoverRequest, TakeoverAnswered,
     Unreachable
<1>6. ASSUME NEW x \in Controllers
      PROVE  ~Start(x) /\ ~Left(x) /\ ~Crash(x) /\ ~Watch(x) /\ ~Loaded(x) /\ ~Asked(x)
  BY <1>1, SMT DEF TypeOK, Start, Left, Crash, Watch, Loaded, Asked, TakeOffice
<1>7. ASSUME NEW x \in Controllers, NEW y \in Controllers PROVE ~Deliver(x, y)
  BY <1>1, SMT DEF TypeOK, Deliver
<1>8. ASSUME NEW x \in Controllers, NEW readable \in BOOLEAN, PingUnanswered(x, readable)
      PROVE  x = c
  BY <1>2, <1>3, <1>8, Zenon DEF PingUnanswered
<1>9. Reads \subseteq BOOLEAN
  BY FlagAssumption
<1> QED
  BY <1>4, <1>5, <1>6, <1>7, <1>8, <1>9, Zenon DEF Next, Request, Poll

\* Every state of the controllers, the file and the flags is well formed.
THEOREM BackupTypeCorrect == Spec => []TypeOK
<1>1. Init => TypeOK
  BY InitTypeOK
<1>2. TypeOK /\ [Next]_vars => TypeOK'
  BY NextTypeOK
<1> QED
  BY <1>1, <1>2, PTL DEF Spec

\* The ages the file and the standby controllers' pings can have.
THEOREM BackupInvariant == Spec => []IInv
<1> QED
  BY InitOK, NextOK, PTL DEF Spec

\* A standby controller never takes control by its own decision (the break of
\* run_backup()) while another one is in control or still saves its state: with
\* one backup for every SlurmctldTimeout of at least 4 and whatever "scontrol
\* takeover" does, with more backups when nobody asks for a takeover and a beat
\* falls between any two looks at the file.
THEOREM HeartbeatIsEnough ==
  (LastBackup = 1 \/ (~AllowTakeover /\ Spaced)) => (Spec => HeartbeatPreventsTakeover)
<1> SUFFICES ASSUME LastBackup = 1 \/ (~AllowTakeover /\ Spaced)
             PROVE  Spec => HeartbeatPreventsTakeover
  OBVIOUS
<1> DEFINE Safe ==
      \A c \in Backups :
        (role[c] = "standby" /\ role'[c] = "loading" /\ takeover[c] # "yes") =>
          \A d \in Controllers : ~InControl(d)
<1>1. IInv /\ [Next]_vars => [Safe]_vars
  <2> SUFFICES ASSUME IInv, [Next]_vars, NEW c \in Backups, role[c] = "standby",
                      role'[c] = "loading", takeover[c] # "yes", NEW d \in Controllers
               PROVE  ~InControl(d)
    BY Zenon
  <2>1. PICK readable \in BOOLEAN : PingUnanswered(c, readable)
    BY OnlyPingsTake, Zenon DEF IInv
  <2>2. role'[c] # role[c]
    BY SMT
  <2> QED
    BY <2>1, <2>2, TakingIsSafe
<1>2. Spec => [][Safe]_vars
  <2> HIDE DEF Safe
  <2> QED
    BY <1>1, BackupInvariant, PTL DEF Spec
<1> QED
  BY <1>2 DEF HeartbeatPreventsTakeover

=============================================================================
