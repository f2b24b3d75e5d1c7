---------------------------- MODULE MCAuthManager ----------------------------
(* Two requests, one with a catalog refresh, one with a token refresh, or the *)
(* two refreshes without a request, beside the service.  The threads that are *)
(* off never run.                                                             *)
EXTENDS AuthManager

CONSTANTS r1, r2

Off(thread, on) == IF on THEN thread ELSE [thread EXCEPT !.pc = "off"]

MCThreads == {Requests, Catalogs \cup Refreshers}
                 \cup {{r1, t} : t \in Catalogs \cup Refreshers}

MCInit ==
    \E on \in MCThreads :
        /\ auths = NoneKnown
        /\ sched = [a \in Auths |-> "out"]
        /\ registered = {}
        /\ suspended = {}
        /\ binder = [x \in Binders |-> Off(IdleBinder, x \in on \cup {Service})]
        /\ request = [r \in Requests |-> Off(IdleRequest, r \in on)]
        /\ refresher = [f \in Refreshers |-> Off(IdleRefresher, f \in on)]

MCSpec == MCInit /\ [][Next]_vars /\ Fairness
=============================================================================
