----------------------------- MODULE MCDbdAgent -----------------------------
(***************************************************************************)
(* Small instances of DbdAgent for TLC.                                    *)
(***************************************************************************)
EXTENDS DbdAgent

Quiet == [exit |-> FALSE, types |-> {"JOB"}, closes |-> 0, crashes |-> 0, stops |-> 0,
          faults |-> 0, calls |-> 0]

\* The connection is closed and opened or slurmctld restarted once, and: the
\* full list ends slurmctld; slurmdbd is restarted, loses an answer or fails
\* on a record; two calls halt the agent; slurmctld is killed.
StreamCases ==
  {[Quiet EXCEPT !.closes = 1, !.exit = TRUE, !.types = {"JOB", "REG"}, !.stops = 1],
   [Quiet EXCEPT !.closes = 1, !.types = {"JOB", "REG"}, !.stops = 1, !.faults = 1],
   [Quiet EXCEPT !.closes = 1, !.stops = 1, !.calls = 2],
   [Quiet EXCEPT !.closes = 1, !.crashes = 1, !.faults = 1]}

\* The default, max_dbd_msg_action=discard, with job and step records; nothing
\* goes wrong.
PurgeCases == {[Quiet EXCEPT !.types = {"JOB", "STEP"}]}

=============================================================================
