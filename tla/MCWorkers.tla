------------------------------- MODULE MCWorkers -------------------------------
(* Workers within bounds.  While a campaign is sent it is not deleted, and a    *)
(* worker dies or the campaign fails to load, once; while it is retried it is   *)
(* not paused or cancelled, and always loads.                                   *)
EXTENDS Workers, TLC

MCSending ==
    /\ \A q \in Requests : req'[q].kind # "delete"
    /\ crashes' + dbErrors' <= 1
MCRetrying ==
    /\ \A q \in Requests : req'[q].kind \notin {"pause", "cancel"}
    /\ dbErrors' = 0
MCNext ==
    /\ WorkersNext
    /\ focus = "sending" => MCSending
    /\ focus = "retrying" => MCRetrying
MCSpec == WorkersInit /\ [][MCNext]_workersVars

\* Slots are interchangeable.  One permutation serves a set of each component,
\* because only one of them moves: workers are the threads, and requests the
\* transfers.
WorkersSymmetry == UNION {Permutations(S) : S \in {Threads, Transfers, Confs}}
===============================================================================
