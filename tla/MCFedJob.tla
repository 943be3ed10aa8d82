------------------------------ MODULE MCFedJob ------------------------------
(***************************************************************************)
(* Small federations for TLC: the cases of FedJob that the runs explore.   *)
(***************************************************************************)
EXTENDS FedJob

Calm == [down |-> {}, stop |-> {}, ends |-> {"COMPLETE"}, refusals |-> 0, kills |-> 0,
         dbd |-> TRUE]

\* Three clusters.  The origin or a sibling is restarted while copies start;
\* the origin is restarted while the job runs, ends or is cancelled, the
\* second sibling being down; the origin is restarted and scancel meets it,
\* with no slurmdbd to ask who is up; nothing is restarted.
RestartCases ==
  {[Calm EXCEPT !.stop = {1}, !.ends = {}],
   [Calm EXCEPT !.stop = {2}, !.ends = {}],
   [Calm EXCEPT !.down = {3}, !.stop = {1}, !.kills = 1],
   [Calm EXCEPT !.stop = {1}, !.ends = {}, !.kills = 1, !.dbd = FALSE],
   [Calm EXCEPT !.refusals = 1, !.kills = 1]}

\* No restarts: jobs end either way, submissions are refused, scancel comes.
CalmCases == {[Calm EXCEPT !.ends = {"COMPLETE", "FAILED"}, !.refusals = 2, !.kills = 2]}

\* Two clusters, the origin is restarted once.
OriginRestart == {[Calm EXCEPT !.stop = {1}]}

=============================================================================
