---------------------------- MODULE RecordStream ----------------------------
(***************************************************************************)
(* What slurmctld promises of its accounting records: those that           *)
(* slurmdbd_agent_send accepted come to the database in the order they     *)
(* were accepted, none is left out, and only a crash of slurmctld takes    *)
(* records away, the latest ones.                                          *)
(***************************************************************************)
EXTENDS Integers, Sequences

CONSTANT Records

VARIABLES
  pending,   \* accepted and not stored yet, in the order of acceptance
  stored     \* stored in the database

Init == pending = <<>> /\ stored = {}

Accept(r) ==
  /\ pending' = Append(pending, r)
  /\ UNCHANGED stored

Store ==
  /\ pending # <<>>
  /\ stored' = stored \cup {Head(pending)}
  /\ pending' = Tail(pending)

Crash(n) ==
  /\ pending' = SubSeq(pending, 1, n)
  /\ UNCHANGED stored

Next ==
  \/ \E r \in Records : Accept(r)
  \/ Store
  \/ \E n \in 0 .. Len(pending) : Crash(n)

Spec == Init /\ [][Next]_<<pending, stored>>

=============================================================================
