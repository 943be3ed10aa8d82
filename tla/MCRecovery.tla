----------------------------- MODULE MCRecovery -----------------------------
(* Small instances of Recovery: every fault on its own or with one other,  *)
(* so that each instance is explored to its end.                           *)
EXTENDS Recovery
CONSTANTS n1, n2

Case(nodes, submits, starts, crashes, stops, lost, ticks, requeue) ==
  [nodes |-> nodes, submits |-> submits, starts |-> starts, crashes |-> crashes,
   stops |-> stops, lost |-> lost, ticks |-> ticks, requeue |-> requeue]

RecoveryCases ==
  { Case({n1, n2}, 1, 2, 1, 0, 0, 0, FALSE),  \* a crash; a job started on two nodes
    Case({n1, n2}, 1, 2, 0, 0, 2, 0, TRUE),   \* two messages are lost
    Case({n1}, 1, 2, 1, 0, 0, 1, TRUE),       \* a crash and a later second
    Case({n1}, 2, 2, 1, 0, 0, 0, TRUE),       \* a crash and a job id used again
    Case({n1}, 1, 2, 1, 0, 1, 0, FALSE),      \* a crash and a lost message
    Case({n1}, 1, 1, 0, 1, 1, 0, TRUE) }      \* a shutdown and a lost message
=============================================================================
