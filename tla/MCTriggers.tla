----------------------------- MODULE MCTriggers -----------------------------
(* Instances of Triggers for TLC. *)
EXTENDS Triggers

CONSTANTS gl, events, drop, f1, f2, f3

MCStrategy == [b \in Cron |-> IF b = gl THEN "lookback" ELSE "watermark"]
MCFileBinding == [f \in Files |-> drop]
MCFilePeriod == [f \in Files |-> Calendar(2)]
Late == [binding |-> events, period |-> Calendar(2) + 1]
Again == [binding |-> drop, period |-> Calendar(2)]
MCRequests == {Late, Again}

\* The scheduler over a change of month, dying or beside the API server, and
\* the watcher beside it with files that arrive.
Setting(runs, clients, last, pushes, uploads, failures, crashes) ==
    [runs |-> runs, clients |-> clients, last |-> last, pushes |-> pushes,
     uploads |-> uploads, failures |-> failures, crashes |-> crashes]
MCSettings ==
    {Setting({"scheduler"}, {}, 6, 0, 0, 1, 1),
     Setting({"scheduler", "server"}, {Late}, 6, 1, 0, 0, 0),
     Setting({"watcher", "server"}, {Again}, 5, 1, 2, 1, 1)}
=============================================================================
