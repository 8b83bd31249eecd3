------------------------------- MODULE MCMedia --------------------------------
(* Outgoing call, IVR interpreter and media bridge, one of them at a time. *)
EXTENDS Media

ETo(f, c, t) == [from |-> f, cond |-> c, to |-> t]
MCNodeType == [gr |-> "greeting", ti |-> "timing", me |-> "menu", ga |-> "gather",
               ht |-> "http_callback", tr |-> "transfer", go |-> "goto_flow", dead |-> "goto_flow",
               ha |-> "hangup", te |-> "transfer"]
MCNodes == DOMAIN MCNodeType
MCEdges == {ETo("gr", "default", "ti"), ETo("ti", "in_hours", "me"), ETo("ti", "default", "ha"),
            ETo("me", "1", "ga"), ETo("me", "2", "tr"), ETo("me", "max_retries", "ht"),
            ETo("ga", "default", "go"), ETo("ga", "max_retries", "dead"),
            ETo("ht", "http:2xx", "dead"), ETo("ht", "default", "ha"), ETo("tr", "completed", "ha")}
MCTarget == [go |-> 2, dead |-> 3]
MCEntry == <<"gr", "te", "none">>
===============================================================================
